---- MODULE Spec2Model ----
(***************************************************************************)
(* Misfit Installer Kit (Plnderer/Misfit-Studio).                          *)
(*                                                                         *)
(* The module holds four state machines over one set of variables:         *)
(*   SpecPatch     the marker patch of the two apply scripts               *)
(*                 (Update-FileBlock / update_file_block);                 *)
(*   SpecBuild     the Studio's handleBuild (validation, target            *)
(*                 inspection, overwrite confirmations, build_project);    *)
(*   SpecInstaller the Installer component (load, handleInstall,           *)
(*                 handleRestore) with the backend commands as opaque      *)
(*                 asynchronous calls;                                     *)
(*   SpecEngine    the Installer component driving the install engine      *)
(*                 (step executor, backup manager, restore engine), one    *)
(*                 operation at a time.                                    *)
(* Each specification leaves the variables of the others at their idle     *)
(* values.                                                                 *)
(*                                                                         *)
(* Text is a sequence of tokens.  JavaScript strings are sequences of      *)
(* one-character strings, so that trim, split and the base name of a path  *)
(* are computed and not assumed.                                           *)
(***************************************************************************)
EXTENDS Integers, Sequences, FiniteSets, TLC

VARIABLES
    \* ---- marker patch (apply.ps1 / apply-macos.sh)
    script,      \* which script runs: "ps1" or "sh"
    pfile,       \* the target file: File(text), or Missing
    pfile0,      \* the target file before the first application
    applied,     \* the block contents applied so far, in order
    paths,       \* the branch each application took
    pout,        \* the lines the script printed, in order
    pexit,       \* "off", "running", or the exit status the script ended with
    \* ---- Studio (Dashboard of App.tsx)
    steps,       \* the steps of the form, in order
    building,    \* the building flag, which disables the forge button
    logs,        \* the log panel: the lines, each a sequence of tokens
    bpc,         \* where the running handleBuild stands, or "idle"
    bsteps,      \* the steps the last handleBuild closed over
    breq,        \* its request: projectName, manifest, payloadFiles
    btarget,     \* what inspect_build_target answered it
    asked,       \* the confirmations it has put, with the answers
    calls,       \* the commands invoked on the backend so far, in order
    xpc,         \* where the running export or import handler stands, or "idle"
    xsteps,      \* the steps the running handleExportManifest closed over
    exported,    \* the manifest file write_text_file wrote, or NoExport
    pname,       \* the project name field of the form
    presets,     \* the preset library, in order
    selectedPresetName,  \* the preset the selector shows
    pasked,      \* the preset handlers that wait: dialog, file read or confirm
    \* ---- Installer (components/Installer.tsx)
    manifest,    \* the manifest state: NoManifest until get_manifest resolves
    status,      \* 'loading', 'ready', 'installing', 'complete' or 'error'
    ilogs,       \* the log panel: the lines, each a sequence of tokens
    errorMsg,    \* the error banner
    dialogs,     \* the 'Run commands?' confirmations that wait for an answer
    icalls,      \* the commands this session invoked, each with its outcome
    sessions,    \* how many times the Installer has been mounted
    \* ---- install engine (backend; no source in the repository)
    fs,          \* the target file system: path -> File(text) or Missing
    backups,     \* the backup directories: root, appName, timestamp, entries
    clock,       \* the timestamp the next run takes
    run,         \* the last install run: manifest, position, what it touched
    rest,        \* the last restore, or NoRestore when a run came after it
    \* ---- key-path resolver (backend; no source in the repository)
    kpath,       \* the key path of the setJsonValue step at hand
    kresult      \* what the resolver returned for it, or NotResolved

patchVars == <<script, pfile, pfile0, applied, paths, pout, pexit>>

buildVars == <<steps, building, logs, bpc, bsteps, breq, btarget, asked, calls>>

exportVars == <<xpc, xsteps, exported>>

formVars == <<pname>>

presetVars == <<presets, selectedPresetName, pasked>>

installerVars == <<manifest, status, ilogs, errorMsg, dialogs, icalls, sessions>>

engineVars == <<fs, backups, clock, run, rest>>

keyVars == <<kpath, kresult>>

vars == <<patchVars, buildVars, exportVars, formVars, presetVars, installerVars, engineVars, keyVars>>

\* The variables a specification leaves alone.
notPatchVars == <<buildVars, exportVars, formVars, presetVars, installerVars, engineVars, keyVars>>
notBuildVars == <<patchVars, exportVars, formVars, presetVars, installerVars, engineVars, keyVars>>
notInstallerVars == <<patchVars, buildVars, exportVars, formVars, presetVars, engineVars, keyVars>>
notEngineVars == <<patchVars, buildVars, exportVars, formVars, presetVars, keyVars>>
notStudioVars == <<patchVars, formVars, presetVars, installerVars, engineVars, keyVars>>
notKeyVars == <<patchVars, buildVars, exportVars, formVars, presetVars, installerVars, engineVars>>

\* A file of the target machine: whether it exists, and its text.
File(text) == [exists |-> TRUE, text |-> text]

\* A path that does not exist.
Missing == [exists |-> FALSE, text |-> <<>>]

\* No script runs.
PatchIdle ==
    /\ script = "none"
    /\ pfile = Missing
    /\ pfile0 = Missing
    /\ applied = <<>>
    /\ paths = <<>>
    /\ pout = <<>>
    /\ pexit = "off"

\* The manifest state before get_manifest resolves: null.
NoManifest == [appName |-> "", version |-> "", installSteps |-> <<>>]

\* The Installer as it mounts.
InstallerMounts ==
    /\ manifest = NoManifest
    /\ status = "loading"
    /\ ilogs = <<>>
    /\ errorMsg = <<>>
    /\ dialogs = 0
    /\ icalls = <<>>

\* The Installer is not in use.
InstallerIdle ==
    /\ InstallerMounts
    /\ sessions = 0

\* The paths of the target file system.
Paths == {"p1", "p2"}

\* No run has been started.
NoRun ==
    [phase |-> "none", app |-> "", steps |-> <<>>, k |-> 0, ts |-> 0,
     pre |-> [p \in Paths |-> Missing], seen |-> {}, touched |-> {},
     trace |-> <<>>, snaps |-> <<>>, failed |-> 0]

NoRestore ==
    [app |-> "", result |-> "none", root |-> "", ts |-> 0,
     before |-> [p \in Paths |-> Missing], follows |-> FALSE]

\* The engine is not in use.
EngineIdle ==
    /\ fs = [p \in Paths |-> Missing]
    /\ backups = {}
    /\ clock = 1
    /\ run = NoRun
    /\ rest = NoRestore

\* The resolver has not been called.
NotResolved == [ok |-> FALSE, segments |-> <<>>, error |-> ""]

KeyIdle ==
    /\ kpath = <<>>
    /\ kresult = NotResolved

(***************************************************************************)
(* Sequence helpers.                                                       *)
(***************************************************************************)
\* The positions of text that hold tok.
Positions(text, tok) == {i \in 1..Len(text) : text[i] = tok}

\* The least element of a non-empty set of integers.
Min(S) == CHOOSE x \in S : \A y \in S : x <= y

\* The greatest element of a non-empty set of integers.
Max(S) == CHOOSE x \in S : \A y \in S : x >= y

\* All sequences over S of length at most n.
SeqsUpTo(S, n) == UNION {[1..k -> S] : k \in 0..n}

(***************************************************************************)
(* JavaScript strings: sequences of one-character strings.                 *)
(***************************************************************************)
\* White space, as String.prototype.trim and Number see it.
IsSpace(c) == c = " "

RECURSIVE TrimStart(_)
TrimStart(s) ==
    IF s # <<>> /\ IsSpace(Head(s)) THEN TrimStart(Tail(s)) ELSE s

RECURSIVE TrimEnd(_)
TrimEnd(s) ==
    IF s # <<>> /\ IsSpace(s[Len(s)]) THEN TrimEnd(SubSeq(s, 1, Len(s) - 1)) ELSE s

\* String.prototype.trim
Trim(s) == TrimEnd(TrimStart(s))

\* A path separator, the class [\\/] of the regular expressions.
IsSep(c) == c \in {"/", "\\"}

RECURSIVE StripTrailingSeps(_)
\* pathStr.replace(/[\\/]+$/, '')
StripTrailingSeps(s) ==
    IF s # <<>> /\ IsSep(s[Len(s)]) THEN StripTrailingSeps(SubSeq(s, 1, Len(s) - 1))
    ELSE s

\* cleaned.split(/[\\/]/).pop(): what follows the last separator.
LastSegment(s) ==
    LET seps == {i \in 1..Len(s) : IsSep(s[i])}
    IN  IF seps = {} THEN s ELSE SubSeq(s, Max(seps) + 1, Len(s))

\* toBaseName
ToBaseName(pathStr) ==
    LET base == LastSegment(StripTrailingSeps(pathStr))
    IN  IF base # <<>> THEN base ELSE <<"f", "i", "l", "e">>

RECURSIVE SplitOn(_, _)
\* String.prototype.split(sep) for a one-character separator.
SplitOn(s, sep) ==
    LET at == {i \in 1..Len(s) : s[i] = sep}
    IN  IF at = {} THEN <<s>>
        ELSE <<SubSeq(s, 1, Min(at) - 1)>> \o SplitOn(SubSeq(s, Min(at) + 1, Len(s)), sep)

\* The non-empty strings of a sequence, in order: filter(Boolean).
SelectNonEmpty(seq) == SelectSeq(seq, LAMBDA x : x # <<>>)

\* step.args.split(',').map(arg => arg.trim()).filter(Boolean)
ParseArgs(args) ==
    LET parts == SplitOn(args, ",")
    IN  SelectNonEmpty([i \in 1..Len(parts) |-> Trim(parts[i])])

\* The decimal digits of the model's alphabet.
IsDigit(c) == c \in {"0", "1", "2"}

\* A non-empty run of digits.
IsDigits(s) == s # <<>> /\ \A i \in 1..Len(s) : IsDigit(s[i])

RECURSIVE StripLeadingZeros(_)
StripLeadingZeros(s) ==
    IF Len(s) > 1 /\ Head(s) = "0" THEN StripLeadingZeros(Tail(s)) ELSE s

\* Number.isNaN(Number(raw)): Number trims white space, reads the empty
\* string as 0 and a run of digits as its value; any other text of the
\* model's alphabet is NaN.
NumberIsNaN(raw) ==
    LET t == Trim(raw)
    IN  ~(t = <<>> \/ IsDigits(t))

\* Number(raw) for a raw text that is not NaN, as the digits JSON.stringify
\* would write.
NumberValue(raw) ==
    LET t == Trim(raw)
    IN  IF t = <<>> THEN <<"0">> ELSE StripLeadingZeros(t)

\* The text JSON.parse is given: valueRaw || 'null'.
JsonSource(raw) == IF raw = <<>> THEN <<"n", "u", "l", "l">> ELSE raw

\* JSON.parse(raw || 'null') returns: over the model's alphabet the JSON
\* texts are null, a number without a leading zero, and the empty object,
\* each with white space around it (and inside the braces).
JsonParses(raw) ==
    LET t == Trim(JsonSource(raw))
    IN  \/ t = <<"n", "u", "l", "l">>
        \/ IsDigits(t) /\ (Len(t) = 1 \/ Head(t) # "0")
        \/ /\ Len(t) >= 2
           /\ Head(t) = "{"
           /\ t[Len(t)] = "}"
           /\ \A i \in 2..(Len(t) - 1) : IsSpace(t[i])

\* The value JSON.parse returns, in the compact text JSON.stringify writes.
JsonValue(raw) ==
    LET t == Trim(JsonSource(raw))
    IN  IF Head(t) = "{" THEN <<"{", "}">> ELSE t

(***************************************************************************)
(* Studio: the steps of the form (UiStep) and handleBuild's pass over      *)
(* them.                                                                   *)
(***************************************************************************)
CopyStep(enabled, payloadSource, payloadRel, dest) ==
    [type |-> "copy", enabled |-> enabled, payloadSource |-> payloadSource,
     payloadRel |-> payloadRel, dest |-> dest]

PatchBlockStep(enabled, file, startMarker, endMarker, contentSource, contentRel, replacements) ==
    [type |-> "patchBlock", enabled |-> enabled, file |-> file,
     startMarker |-> startMarker, endMarker |-> endMarker,
     contentSource |-> contentSource, contentRel |-> contentRel,
     replacements |-> replacements]

SetJsonValueStep(enabled, file, keyPath, valueType, valueRaw, valueBool) ==
    [type |-> "setJsonValue", enabled |-> enabled, file |-> file, keyPath |-> keyPath,
     valueType |-> valueType, valueRaw |-> valueRaw, valueBool |-> valueBool]

Base64EmbedStep(enabled, file, placeholder, inputSource, inputRel) ==
    [type |-> "base64Embed", enabled |-> enabled, file |-> file,
     placeholder |-> placeholder, inputSource |-> inputSource, inputRel |-> inputRel]

RunCommandStep(enabled, command, args) ==
    [type |-> "runCommand", enabled |-> enabled, command |-> command, args |-> args]

\* One entry of handleBuild's errors array; path is the payload path a
\* message quotes, and empty for the other messages.
BuildError(msg) == [msg |-> msg, path |-> <<>>]

\* What handleBuild has gathered so far: the payload Map in insertion order,
\* the manifest steps, the errors.
EmptyPass == [payloadMap |-> <<>>, installSteps |-> <<>>, errors |-> <<>>]

\* payloadMap.has(key)
MapHas(map, key) == \E i \in 1..Len(map) : map[i].rel = key

\* payloadMap.get(key), for a key the Map has.
MapGet(map, key) == map[CHOOSE i \in 1..Len(map) : map[i].rel = key].source

\* payloadMap.set(key, source): a key the Map has keeps its place.
MapSet(map, key, source) ==
    IF MapHas(map, key)
    THEN [i \in 1..Len(map) |->
            IF map[i].rel = key THEN [rel |-> key, source |-> source] ELSE map[i]]
    ELSE Append(map, [rel |-> key, source |-> source])

\* errors.push(err), and the variant that records nothing.
WithErrorDropped(pass, err) == pass

WithError(pass, err) == [pass EXCEPT !.errors = Append(@, err)]

WithStep(pass, step) == [pass EXCEPT !.installSteps = Append(@, step)]

\* addPayload without the check of the path against the Map: the later
\* source takes the path.
AddPayloadOverwrite(pass, rel, source) ==
    LET cleaned == Trim(rel)
    IN  IF cleaned = <<>>
        THEN WithError(pass, BuildError("A payload path cannot be empty."))
        ELSE [pass EXCEPT !.payloadMap = MapSet(@, cleaned, source)]

\* addPayload
AddPayload(pass, rel, source) ==
    LET cleaned == Trim(rel)
    IN  IF cleaned = <<>>
        THEN WithError(pass, BuildError("A payload path cannot be empty."))
        ELSE IF MapHas(pass.payloadMap, cleaned) /\ MapGet(pass.payloadMap, cleaned) # source
        THEN WithError(pass, [msg |-> "A payload path is already claimed: ", path |-> cleaned])
        ELSE [pass EXCEPT !.payloadMap = MapSet(@, cleaned, source)]

\* a.trim() || b
OrElse(a, b) == IF Trim(a) # <<>> THEN Trim(a) ELSE b

RECURSIVE ReplacementsObject(_)
\* The reduce over the replacement pairs whose key is not blank: a later pair
\* with the same key overwrites the value and keeps the key's place.  An
\* object without keys is written as undefined, the empty sequence here.
ReplacementsObject(pairs) ==
    IF pairs = <<>> THEN <<>>
    ELSE LET before == ReplacementsObject(SubSeq(pairs, 1, Len(pairs) - 1))
             pair == pairs[Len(pairs)]
         IN  IF Trim(pair.key) = <<>> THEN before
             ELSE IF \E i \in 1..Len(before) : before[i].key = pair.key
             THEN [i \in 1..Len(before) |->
                    IF before[i].key = pair.key THEN pair ELSE before[i]]
             ELSE Append(before, pair)

\* handleBuild, the copy branch of the loop.
BuildCopy(pass, step) ==
    LET source == Trim(step.payloadSource)
        dest == Trim(step.dest)
        rel == OrElse(step.payloadRel, ToBaseName(source))
    IN  IF source = <<>>
        THEN WithError(pass, BuildError("A copy decree is missing a source file or folder."))
        ELSE IF dest = <<>>
        THEN WithError(pass, BuildError("A copy decree is missing a destination path."))
        ELSE WithStep(AddPayload(pass, rel, source),
                      [type |-> "copy", src |-> rel, dest |-> dest])

\* handleBuild, the patchBlock branch of the loop.
BuildPatchBlock(pass, step) ==
    LET target == Trim(step.file)
        startMarker == Trim(step.startMarker)
        endMarker == Trim(step.endMarker)
        contentSource == Trim(step.contentSource)
        rel == OrElse(step.contentRel, ToBaseName(contentSource))
    IN  IF target = <<>>
        THEN WithError(pass, BuildError("A patch decree is missing the target file."))
        ELSE IF startMarker = <<>>
        THEN WithError(pass, BuildError("A patch decree is missing a start marker."))
        ELSE IF endMarker = <<>>
        THEN WithError(pass, BuildError("A patch decree is missing an end marker."))
        ELSE IF contentSource = <<>>
        THEN WithError(pass, BuildError("A patch decree is missing a content file."))
        ELSE WithStep(AddPayload(pass, rel, contentSource),
                      [type |-> "patchBlock", file |-> target,
                       startMarker |-> startMarker, endMarker |-> endMarker,
                       contentFile |-> rel,
                       replacements |-> ReplacementsObject(step.replacements)])

\* The manifest value of a setJsonValue step whose value passed the checks:
\* its JavaScript type and its JSON text.
JsonStepValue(step) ==
    IF step.valueType = "number"
    THEN [t |-> "number", v |-> NumberValue(step.valueRaw)]
    ELSE IF step.valueType = "boolean"
    THEN [t |-> "boolean", v |-> IF step.valueBool THEN <<"true">> ELSE <<"false">>]
    ELSE IF step.valueType = "json"
    THEN [t |-> "json", v |-> JsonValue(step.valueRaw)]
    ELSE [t |-> "string", v |-> step.valueRaw]

\* handleBuild, the setJsonValue branch of the loop.
BuildSetJsonValue(pass, step) ==
    LET target == Trim(step.file)
        keyPath == Trim(step.keyPath)
    IN  IF target = <<>>
        THEN WithError(pass, BuildError("A JSON decree is missing the target file."))
        ELSE IF keyPath = <<>>
        THEN WithError(pass, BuildError("A JSON decree is missing the key path."))
        ELSE IF step.valueType = "number" /\ NumberIsNaN(step.valueRaw)
        THEN WithError(pass, BuildError("A JSON decree number is invalid."))
        ELSE IF step.valueType = "json" /\ ~JsonParses(step.valueRaw)
        THEN WithError(pass, BuildError("A JSON decree is not valid JSON."))
        ELSE WithStep(pass, [type |-> "setJsonValue", file |-> target,
                             keyPath |-> keyPath, value |-> JsonStepValue(step)])

\* handleBuild, the base64Embed branch of the loop.
BuildBase64Embed(pass, step) ==
    LET target == Trim(step.file)
        placeholder == Trim(step.placeholder)
        inputSource == Trim(step.inputSource)
        rel == OrElse(step.inputRel, ToBaseName(inputSource))
    IN  IF target = <<>>
        THEN WithError(pass, BuildError("A seal embed decree is missing the target file."))
        ELSE IF placeholder = <<>>
        THEN WithError(pass, BuildError("A seal embed decree is missing the placeholder."))
        ELSE IF inputSource = <<>>
        THEN WithError(pass, BuildError("A seal embed decree is missing the input file."))
        ELSE WithStep(AddPayload(pass, rel, inputSource),
                      [type |-> "base64Embed", file |-> target,
                       placeholder |-> placeholder, inputFile |-> rel])

\* handleBuild, the runCommand branch of the loop.
BuildRunCommand(pass, step) ==
    LET command == Trim(step.command)
    IN  IF command = <<>>
        THEN WithError(pass, BuildError("A command decree is missing the command."))
        ELSE WithStep(pass, [type |-> "runCommand", command |-> command,
                             args |-> ParseArgs(step.args)])

\* The loop without its first line: a disabled step is built like any other.
BuildStepDisabledToo(pass, step) ==
    IF step.type = "copy" THEN BuildCopy(pass, step)
    ELSE IF step.type = "patchBlock" THEN BuildPatchBlock(pass, step)
    ELSE IF step.type = "setJsonValue" THEN BuildSetJsonValue(pass, step)
    ELSE IF step.type = "base64Embed" THEN BuildBase64Embed(pass, step)
    ELSE BuildRunCommand(pass, step)

\* handleBuild, one turn of the loop over steps.
BuildStep(pass, step) ==
    IF ~step.enabled THEN pass
    ELSE IF step.type = "copy" THEN BuildCopy(pass, step)
    ELSE IF step.type = "patchBlock" THEN BuildPatchBlock(pass, step)
    ELSE IF step.type = "setJsonValue" THEN BuildSetJsonValue(pass, step)
    ELSE IF step.type = "base64Embed" THEN BuildBase64Embed(pass, step)
    ELSE BuildRunCommand(pass, step)

RECURSIVE BuildPass(_)
\* handleBuild, the loop over steps.
BuildPass(uiSteps) ==
    IF uiSteps = <<>> THEN EmptyPass
    ELSE BuildStep(BuildPass(SubSeq(uiSteps, 1, Len(uiSteps) - 1)), uiSteps[Len(uiSteps)])

\* Array.from(payloadMap.entries()).map(([rel, src]) => [src, rel])
PayloadFiles(map) == [i \in 1..Len(map) |-> <<map[i].source, map[i].rel>>]

(***************************************************************************)
(* Studio: Export Manifest and Import Manifest.  A manifest value carries  *)
(* the JavaScript type it has in the JSON text: "number", "boolean",       *)
(* "string", or "json" for null and objects.                               *)
(***************************************************************************)
\* rel.trim() || (source ? toBaseName(source) : '')
ExportRel(rel, source) ==
    IF Trim(rel) # <<>> THEN Trim(rel)
    ELSE IF source # <<>> THEN ToBaseName(source) ELSE <<>>

\* buildManifestForExport, the value of a setJsonValue step: a number that
\* does not parse and a JSON text that does not parse are written as the raw
\* string.
ExportValue(step) ==
    IF step.valueType = "number"
    THEN IF NumberIsNaN(step.valueRaw)
         THEN [t |-> "string", v |-> step.valueRaw]
         ELSE [t |-> "number", v |-> NumberValue(step.valueRaw)]
    ELSE IF step.valueType = "boolean"
    THEN [t |-> "boolean", v |-> IF step.valueBool THEN <<"true">> ELSE <<"false">>]
    ELSE IF step.valueType = "json"
    THEN IF ~JsonParses(step.valueRaw)
         THEN [t |-> "string", v |-> step.valueRaw]
         ELSE IF IsDigits(JsonValue(step.valueRaw))
         THEN [t |-> "number", v |-> JsonValue(step.valueRaw)]
         ELSE [t |-> "json", v |-> JsonValue(step.valueRaw)]
    ELSE [t |-> "string", v |-> step.valueRaw]

\* buildManifestForExport, one turn of the loop over steps: a disabled step
\* and a step whose leading fields are all blank are passed over; nothing
\* is checked.
ExportStep(installSteps, step) ==
    IF ~step.enabled THEN installSteps
    ELSE IF step.type = "copy"
    THEN LET rel == ExportRel(step.payloadRel, step.payloadSource)
         IN  IF rel = <<>> /\ Trim(step.dest) = <<>> THEN installSteps
             ELSE Append(installSteps,
                         [type |-> "copy", src |-> rel, dest |-> Trim(step.dest)])
    ELSE IF step.type = "patchBlock"
    THEN IF Trim(step.file) = <<>> /\ Trim(step.contentRel) = <<>>
            /\ Trim(step.contentSource) = <<>>
         THEN installSteps
         ELSE Append(installSteps,
                     [type |-> "patchBlock", file |-> Trim(step.file),
                      startMarker |-> Trim(step.startMarker),
                      endMarker |-> Trim(step.endMarker),
                      contentFile |-> ExportRel(step.contentRel, step.contentSource),
                      replacements |-> ReplacementsObject(step.replacements)])
    ELSE IF step.type = "setJsonValue"
    THEN IF Trim(step.file) = <<>> /\ Trim(step.keyPath) = <<>>
            /\ Trim(step.valueRaw) = <<>>
         THEN installSteps
         ELSE Append(installSteps,
                     [type |-> "setJsonValue", file |-> Trim(step.file),
                      keyPath |-> Trim(step.keyPath), value |-> ExportValue(step)])
    ELSE IF step.type = "base64Embed"
    THEN IF Trim(step.file) = <<>> /\ Trim(step.inputRel) = <<>>
            /\ Trim(step.inputSource) = <<>>
         THEN installSteps
         ELSE Append(installSteps,
                     [type |-> "base64Embed", file |-> Trim(step.file),
                      placeholder |-> Trim(step.placeholder),
                      inputFile |-> ExportRel(step.inputRel, step.inputSource)])
    ELSE IF Trim(step.command) = <<>> /\ Trim(step.args) = <<>>
         THEN installSteps
         ELSE Append(installSteps,
                     [type |-> "runCommand", command |-> Trim(step.command),
                      args |-> ParseArgs(step.args)])

RECURSIVE ExportSteps(_)
\* buildManifestForExport, the loop over steps.
ExportSteps(uiSteps) ==
    IF uiSteps = <<>> THEN <<>>
    ELSE ExportStep(ExportSteps(SubSeq(uiSteps, 1, Len(uiSteps) - 1)),
                    uiSteps[Len(uiSteps)])

\* placeholderPattern.test(s): a "<", one character or more that is not
\* ">", and a ">".
PlaceholderPattern(s) ==
    \E i \in 1..Len(s), j \in 1..Len(s) :
        /\ j > i + 1
        /\ s[i] = "<"
        /\ s[j] = ">"
        /\ \A k \in (i + 1)..(j - 1) : s[k] # ">"

RECURSIVE StripLeadingSeps(_)
\* rel.replace(/^[\\/]+/, '')
StripLeadingSeps(s) ==
    IF s # <<>> /\ IsSep(Head(s)) THEN StripLeadingSeps(Tail(s)) ELSE s

\* joinPathFragments
JoinPathFragments(base, rel) ==
    LET baseClean == StripTrailingSeps(base)
        relClean == StripLeadingSeps(rel)
        separator == IF \E i \in 1..Len(baseClean) : baseClean[i] = "\\"
                     THEN "\\" ELSE "/"
    IN  IF baseClean = <<>> THEN relClean
        ELSE IF relClean = <<>> THEN baseClean
        ELSE baseClean \o <<separator>> \o relClean

\* isAbsolutePath over the model's alphabet, which holds no drive letter
\* followed by a colon: the text starts with "/" or with two backslashes.
IsAbsolutePath(value) ==
    \/ value # <<>> /\ Head(value) = "/"
    \/ Len(value) >= 2 /\ value[1] = "\\" /\ value[2] = "\\"

\* resolvePayloadSource
ResolvePayloadSource(payloadDir, rel) ==
    LET cleanedRel == Trim(rel)
    IN  IF payloadDir = <<>> \/ cleanedRel = <<>> THEN <<>>
        ELSE IF PlaceholderPattern(cleanedRel) THEN <<>>
        ELSE IF IsAbsolutePath(cleanedRel) THEN cleanedRel
        ELSE JoinPathFragments(payloadDir, cleanedRel)

RECURSIVE JoinArgs(_)
\* step.args.join(', ')
JoinArgs(args) ==
    IF args = <<>> THEN <<>>
    ELSE IF Len(args) = 1 THEN args[1]
    ELSE JoinArgs(SubSeq(args, 1, Len(args) - 1)) \o <<",", " ">> \o args[Len(args)]

\* What manifestStepToUi returns for a step whose type it does not know.
NullStep == [type |-> "null"]

\* manifestStepToUi with valueToUi: every incoming step of a type the
\* Studio knows is enabled, a setJsonValue step takes the kind of the
\* JavaScript type of its value, and a step of any other type gives null.
ManifestStepToUi(step, payloadDir) ==
    IF step.type = "copy"
    THEN CopyStep(TRUE, ResolvePayloadSource(payloadDir, step.src), step.src, step.dest)
    ELSE IF step.type = "patchBlock"
    THEN PatchBlockStep(TRUE, step.file, step.startMarker, step.endMarker,
                        ResolvePayloadSource(payloadDir, step.contentFile),
                        step.contentFile, step.replacements)
    ELSE IF step.type = "setJsonValue"
    THEN IF step.value.t = "boolean"
         THEN SetJsonValueStep(TRUE, step.file, step.keyPath, "boolean", <<>>,
                               step.value.v = <<"true">>)
         ELSE SetJsonValueStep(TRUE, step.file, step.keyPath, step.value.t,
                               step.value.v, FALSE)
    ELSE IF step.type = "base64Embed"
    THEN Base64EmbedStep(TRUE, step.file, step.placeholder,
                         ResolvePayloadSource(payloadDir, step.inputFile),
                         step.inputFile)
    ELSE IF step.type = "runCommand"
    THEN RunCommandStep(TRUE, step.command, JoinArgs(step.args))
    ELSE NullStep

\* The filter of applyManifest, (step): step is UiStep => step !== null.
IsUiStep(step) == step # NullStep

\* applyManifest without its filter: the nulls stay in the list.
ApplyManifestUnfiltered(man) ==
    [i \in 1..Len(man.installSteps) |->
        ManifestStepToUi(man.installSteps[i], <<man.payloadDir>>)]

\* applyManifest, the steps it sets: the map over installSteps and the
\* filter that drops the nulls.  The form's other fields take the values
\* the manifest was written with.  The payload directory is one token, a
\* name without a separator.
ApplyManifest(man) ==
    SelectSeq([i \in 1..Len(man.installSteps) |->
                  ManifestStepToUi(man.installSteps[i], <<man.payloadDir>>)],
              IsUiStep)

(***************************************************************************)
(* Studio: the form, and handleBuild from the click to its end.  Each      *)
(* action is the stretch of the handler between two awaits.                *)
(***************************************************************************)
\* The form fields other than the steps, at the values the Dashboard starts
\* with.
projectName == "MyNewInstaller"
appName == "My App"
version == "1.0.0"
publisher == "Misfit"
description == "Created with Misfit Studio"
advancedMode == FALSE
payloadDirValue == "payloads"

StepTypes == {"copy", "patchBlock", "setJsonValue", "base64Embed", "runCommand"}

\* createStep
CreateStep(type) ==
    IF type = "copy" THEN CopyStep(TRUE, <<>>, <<>>, <<>>)
    ELSE IF type = "patchBlock"
    THEN PatchBlockStep(TRUE, <<>>, <<>>, <<>>, <<>>, <<>>, <<>>)
    ELSE IF type = "setJsonValue"
    THEN SetJsonValueStep(TRUE, <<>>, <<>>, "string", <<>>, FALSE)
    ELSE IF type = "base64Embed" THEN Base64EmbedStep(TRUE, <<>>, <<>>, <<>>, <<>>)
    ELSE RunCommandStep(TRUE, <<>>, <<>>)

\* The manifest handleBuild assembles.
Manifest(installSteps) ==
    [appName |-> appName, version |-> version, publisher |-> publisher,
     description |-> description, advancedMode |-> advancedMode,
     targets |-> <<>>, payloadDir |-> payloadDirValue,
     installSteps |-> installSteps]

\* inspectReq
InspectRequest(pass) ==
    [projectName |-> pname, manifest |-> Manifest(pass.installSteps),
     payloadFiles |-> PayloadFiles(pass.payloadMap)]

\* req
BuildRequest(inspectReq, forceOverwrite) ==
    [projectName |-> inspectReq.projectName, manifest |-> inspectReq.manifest,
     payloadFiles |-> inspectReq.payloadFiles, forceOverwrite |-> forceOverwrite]

NoRequest == [projectName |-> "", manifest |-> Manifest(<<>>), payloadFiles |-> <<>>]

\* BuildTargetInfo, as inspect_build_target may answer.
Targets ==
    [path : {"out"}, exists : BOOLEAN, hasMarker : BOOLEAN, isAbsolute : BOOLEAN]

NoTarget == [path |-> "", exists |-> FALSE, hasMarker |-> FALSE, isAbsolute |-> FALSE]

\* The text of one error: the message, then the payload path it quotes.
ErrorText(err) == <<err.msg>> \o err.path

RECURSIVE JoinErrors(_)
\* errors.join(' ')
JoinErrors(errors) ==
    IF errors = <<>> THEN <<>>
    ELSE IF Len(errors) = 1 THEN ErrorText(errors[1])
    ELSE JoinErrors(SubSeq(errors, 1, Len(errors) - 1)) \o <<" ">>
         \o ErrorText(errors[Len(errors)])

\* String(e) of the Error handleBuild throws.
ErrorString(message) == <<"Error: ">> \o message

\* String(e) of a command the backend rejected.
RejectionString == <<"backend error">>

SummoningLine == <<"Summoning the forge...">>
ForgeFailedLine(e) == <<"Forge failed: ">> \o e
ForgedLine(path) == <<"Decree forged. Output at: ", path>>
\* A line of the log listener: the time of day, then the payload.
EventLine == <<"[time] ", "payload">>

\* A confirmation the operator answered.
Answered(title, answer) == [title |-> title, answer |-> answer]

Call(cmd, request) == [cmd |-> cmd, request |-> request]

\* No manifest file has been written.
NoExport == [written |-> FALSE, from |-> <<>>, contents |-> Manifest(<<>>)]

\* A preset of the library; data stands for the form content it holds.
Preset(name, data) == [name |-> name, data |-> data]

\* createDefaultPresets
DefaultPresets ==
    << Preset("Antigravity Full", "default"),
       Preset("Antigravity Lite", "default"),
       Preset("Custom", "default") >>

\* The library and the selector as the Dashboard mounts on an empty
\* storage.
PresetIdle ==
    /\ presets = DefaultPresets
    /\ selectedPresetName = "Custom"
    /\ pasked = <<>>

BuildIdle ==
    /\ PresetIdle
    /\ pname = projectName
    /\ xpc = "idle"
    /\ xsteps = <<>>
    /\ exported = NoExport
    /\ steps = <<>>
    /\ building = FALSE
    /\ logs = <<>>
    /\ bpc = "idle"
    /\ bsteps = <<>>
    /\ breq = NoRequest
    /\ btarget = NoTarget
    /\ asked = <<>>
    /\ calls = <<>>

\* Paths and names the form is filled with.
XA == <<"x", "/", "a">>
YA == <<"y", "/", "a">>
YB == <<"y", "/", "b">>
Dest == <<"d">>
TargetFile == <<"t">>

\* The steps the form is filled with: complete ones, ones that share a
\* staged path, and ones that fail each kind of check.
StepPool ==
    { CopyStep(TRUE, XA, <<>>, Dest),
      CopyStep(TRUE, YA, <<>>, Dest),
      CopyStep(TRUE, YB, <<" ", "a", " ">>, Dest),
      CopyStep(TRUE, <<" ">> \o XA, <<"a">>, Dest),
      CopyStep(TRUE, XA, <<>>, <<" ">>),
      CopyStep(FALSE, YA, <<>>, Dest),
      CopyStep(TRUE, <<"x", "/", " ", "/">>, <<>>, Dest),
      PatchBlockStep(TRUE, TargetFile, <<"S">>, <<"E">>, YA, <<>>, <<>>),
      PatchBlockStep(TRUE, TargetFile, <<"S">>, <<" ">>, YA, <<>>, <<>>),
      PatchBlockStep(TRUE, TargetFile, <<"S">>, <<"E">>, YB, <<>>,
                     << [key |-> <<"k">>, value |-> <<"1">>],
                        [key |-> <<" ">>, value |-> <<"2">>],
                        [key |-> <<"k">>, value |-> <<"0">>] >>),
      SetJsonValueStep(TRUE, TargetFile, <<"k">>, "number", <<" ", "0", "1">>, FALSE),
      SetJsonValueStep(TRUE, TargetFile, <<"k">>, "number", <<"1", "x">>, FALSE),
      SetJsonValueStep(TRUE, TargetFile, <<"k">>, "json", <<"{">>, FALSE),
      SetJsonValueStep(TRUE, TargetFile, <<"k">>, "json", <<>>, FALSE),
      SetJsonValueStep(TRUE, TargetFile, <<" ">>, "boolean", <<>>, TRUE),
      Base64EmbedStep(TRUE, TargetFile, <<"p">>, YA, <<>>),
      Base64EmbedStep(TRUE, TargetFile, <<>>, YA, <<>>),
      RunCommandStep(TRUE, <<"c">>, <<"a", ",", " ", ",", "b">>),
      RunCommandStep(TRUE, <<" ">>, <<>>) }

\* The form holds at most MaxSteps steps.
MaxSteps == 2
\* The log panel holds at most MaxLogs lines.
MaxLogs == 3

\* The form is filled in before the first forging, export or import, and
\* the operator starts one handler at a time.
Editing == bpc = "idle" /\ xpc = "idle" /\ logs = <<>>

InitBuild ==
    /\ BuildIdle
    /\ PatchIdle
    /\ InstallerIdle
    /\ EngineIdle
    /\ KeyIdle

\* addStep
AddStep(type) ==
    /\ Editing
    /\ Len(steps) < MaxSteps
    /\ steps' = Append(steps, CreateStep(type))
    /\ UNCHANGED <<building, logs, bpc, bsteps, breq, btarget, asked, calls>>
    /\ UNCHANGED notBuildVars

\* updateStep, once for every field that changes.
UpdateStep(i, to) ==
    /\ Editing
    /\ i \in 1..Len(steps)
    /\ to.type = steps[i].type
    /\ to # steps[i]
    /\ steps' = [steps EXCEPT ![i] = to]
    /\ UNCHANGED <<building, logs, bpc, bsteps, breq, btarget, asked, calls>>
    /\ UNCHANGED notBuildVars

\* removeStep
RemoveStep(i) ==
    /\ Editing
    /\ i \in 1..Len(steps)
    /\ steps' = SubSeq(steps, 1, i - 1) \o SubSeq(steps, i + 1, Len(steps))
    /\ UNCHANGED <<building, logs, bpc, bsteps, breq, btarget, asked, calls>>
    /\ UNCHANGED notBuildVars

\* handleBuild ends: finally setBuilding(false).
EndBuild ==
    /\ building' = FALSE
    /\ bpc' = "idle"

\* build_project invoked with a request assembled from the form as it is
\* when the last confirmation returns.
InvokeBuildFromForm(forceOverwrite) ==
    /\ calls' = Append(calls, Call("build_project",
                     BuildRequest(InspectRequest(BuildPass(steps)), forceOverwrite)))
    /\ bpc' = "build"
    /\ UNCHANGED building

\* invoke('build_project', { request: req })
InvokeBuild(forceOverwrite) ==
    /\ calls' = Append(calls, Call("build_project", BuildRequest(breq, forceOverwrite)))
    /\ bpc' = "build"
    /\ UNCHANGED building

\* handleBuild, from the click to the first await: the button is enabled
\* while building is false.  Errors end the handler in the catch block.
ClickForge ==
    /\ bpc = "idle"
    /\ xpc = "idle"
    /\ ~building
    /\ Len(logs) + 2 <= MaxLogs
    /\ bsteps' = steps
    /\ asked' = <<>>
    /\ btarget' = NoTarget
    /\ LET pass == BuildPass(steps)
       IN  IF pass.errors # <<>>
           THEN /\ logs' = logs \o <<SummoningLine,
                                     ForgeFailedLine(ErrorString(JoinErrors(pass.errors)))>>
                /\ EndBuild
                /\ breq' = NoRequest
                /\ UNCHANGED calls
           ELSE /\ logs' = Append(logs, SummoningLine)
                /\ building' = TRUE
                /\ breq' = InspectRequest(pass)
                /\ calls' = Append(calls, Call("inspect_build_target", InspectRequest(pass)))
                /\ bpc' = "inspect"
    /\ UNCHANGED steps
    /\ UNCHANGED notBuildVars

\* handleBuild without the confirmation of an ordinary overwrite: an
\* existing target with the marker, or a relative one, is replaced unasked.
InspectResolvesUnasked(target) ==
    /\ bpc = "inspect"
    /\ btarget' = target
    /\ IF target.exists /\ target.isAbsolute /\ ~target.hasMarker
       THEN bpc' = "confirmNoMarker" /\ UNCHANGED <<calls, building>>
       ELSE InvokeBuild(target.exists)
    /\ UNCHANGED <<steps, logs, bsteps, breq, asked>>
    /\ UNCHANGED notBuildVars

\* inspect_build_target resolves; handleBuild runs to the next await.
InspectResolves(target) ==
    /\ bpc = "inspect"
    /\ btarget' = target
    /\ IF target.exists
       THEN /\ bpc' = IF target.isAbsolute /\ ~target.hasMarker
                      THEN "confirmNoMarker" ELSE "confirmOverwrite"
            /\ UNCHANGED <<calls, building>>
       ELSE InvokeBuild(FALSE)
    /\ UNCHANGED <<steps, logs, bsteps, breq, asked>>
    /\ UNCHANGED notBuildVars

\* A command rejects; handleBuild ends in the catch block.
CommandRejects ==
    /\ bpc \in {"inspect", "build"}
    /\ logs' = Append(logs, ForgeFailedLine(RejectionString))
    /\ EndBuild
    /\ UNCHANGED <<steps, bsteps, breq, btarget, asked, calls>>
    /\ UNCHANGED notBuildVars

\* The operator answers 'No marker found'.
AnswerNoMarkerThenBuild(warn) ==
    /\ bpc = "confirmNoMarker"
    /\ asked' = Append(asked, Answered("No marker found", warn))
    /\ IF warn THEN InvokeBuild(TRUE) ELSE EndBuild /\ UNCHANGED calls
    /\ UNCHANGED <<steps, logs, bsteps, breq, btarget>>
    /\ UNCHANGED notBuildVars

AnswerNoMarker(warn) ==
    /\ bpc = "confirmNoMarker"
    /\ asked' = Append(asked, Answered("No marker found", warn))
    /\ IF warn
       THEN bpc' = "confirmDelete" /\ UNCHANGED building
       ELSE EndBuild
    /\ UNCHANGED <<steps, logs, bsteps, breq, btarget, calls>>
    /\ UNCHANGED notBuildVars

\* The operator answers 'Delete existing folder?'.
AnswerDelete(confirmDelete) ==
    /\ bpc = "confirmDelete"
    /\ asked' = Append(asked, Answered("Delete existing folder?", confirmDelete))
    /\ IF confirmDelete THEN InvokeBuild(TRUE) ELSE EndBuild /\ UNCHANGED calls
    /\ UNCHANGED <<steps, logs, bsteps, breq, btarget>>
    /\ UNCHANGED notBuildVars

\* 'Overwrite existing build?' with a declined confirmation that leaves
\* the handler without setBuilding(false).
AnswerOverwriteKeepsBuilding(confirmDelete) ==
    /\ bpc = "confirmOverwrite"
    /\ asked' = Append(asked, Answered("Overwrite existing build?", confirmDelete))
    /\ IF confirmDelete
       THEN InvokeBuild(TRUE)
       ELSE bpc' = "idle" /\ UNCHANGED <<building, calls>>
    /\ UNCHANGED <<steps, logs, bsteps, breq, btarget>>
    /\ UNCHANGED notBuildVars

\* The operator answers 'Overwrite existing build?'.
AnswerOverwrite(confirmDelete) ==
    /\ bpc = "confirmOverwrite"
    /\ asked' = Append(asked, Answered("Overwrite existing build?", confirmDelete))
    /\ IF confirmDelete THEN InvokeBuild(TRUE) ELSE EndBuild /\ UNCHANGED calls
    /\ UNCHANGED <<steps, logs, bsteps, breq, btarget>>
    /\ UNCHANGED notBuildVars

\* build_project resolves with the output path.
BuildResolves ==
    /\ bpc = "build"
    /\ logs' = Append(logs, ForgedLine(btarget.path))
    /\ EndBuild
    /\ UNCHANGED <<steps, bsteps, breq, btarget, asked, calls>>
    /\ UNCHANGED notBuildVars

\* The step of the log listener with the log listener putting the line
\* first.
LogEventInFront ==
    /\ bpc \in {"inspect", "build"}
    /\ Len(logs) + 1 < MaxLogs
    /\ logs' = <<EventLine>> \o logs
    /\ UNCHANGED <<steps, building, bpc, bsteps, breq, btarget, asked, calls>>
    /\ UNCHANGED notBuildVars

\* The log listener: the backend emits a line while a command runs.
LogEvent ==
    /\ bpc \in {"inspect", "build"}
    /\ Len(logs) + 1 < MaxLogs
    /\ logs' = Append(logs, EventLine)
    /\ UNCHANGED <<steps, building, bpc, bsteps, breq, btarget, asked, calls>>
    /\ UNCHANGED notBuildVars

\* The path the save dialog and the open dialog return.
ManifestPath == "install.manifest.json"

ExportedLine(path) == <<"Manifest exported to ", path>>
ExportFailedLine(e) == <<"Manifest export failed: ">> \o e
ImportedLine(path) == <<"Manifest imported from ", path>>
ImportFailedLine(e) == <<"Manifest import failed: ">> \o e

\* handleExportManifest, from the click to the save dialog.  The operator
\* exports the form as filled in.
ClickExport ==
    /\ Editing
    /\ xsteps' = steps
    /\ xpc' = "save"
    /\ UNCHANGED exported
    /\ UNCHANGED buildVars
    /\ UNCHANGED notStudioVars

\* The save dialog closes: without a path the handler returns, with one it
\* builds the manifest from the steps it closed over and invokes
\* write_text_file.
SaveCloses(chosen) ==
    /\ xpc = "save"
    /\ IF chosen
       THEN /\ calls' = Append(calls,
                   Call("write_text_file",
                        [path |-> ManifestPath,
                         contents |-> Manifest(ExportSteps(xsteps))]))
            /\ xpc' = "write"
            /\ UNCHANGED xsteps
       ELSE /\ xpc' = "idle"
            /\ xsteps' = <<>>
            /\ UNCHANGED calls
    /\ UNCHANGED exported
    /\ UNCHANGED <<steps, building, logs, bpc, bsteps, breq, btarget, asked>>
    /\ UNCHANGED notStudioVars

\* write_text_file resolves: the file holds the JSON text of the manifest.
WriteResolves ==
    /\ xpc = "write"
    /\ Len(logs) < MaxLogs
    /\ exported' = [written |-> TRUE, from |-> xsteps,
                    contents |-> Manifest(ExportSteps(xsteps))]
    /\ logs' = Append(logs, ExportedLine(ManifestPath))
    /\ xpc' = "idle"
    /\ xsteps' = <<>>
    /\ UNCHANGED <<steps, building, bpc, bsteps, breq, btarget, asked, calls>>
    /\ UNCHANGED notStudioVars

\* write_text_file rejects.
WriteRejects ==
    /\ xpc = "write"
    /\ Len(logs) < MaxLogs
    /\ logs' = Append(logs, ExportFailedLine(RejectionString))
    /\ xpc' = "idle"
    /\ xsteps' = <<>>
    /\ UNCHANGED exported
    /\ UNCHANGED <<steps, building, bpc, bsteps, breq, btarget, asked, calls>>
    /\ UNCHANGED notStudioVars

\* handleImportManifest, from the click to the open dialog.  The operator
\* imports after an export, before anything else.
ClickImport ==
    /\ xpc = "idle"
    /\ bpc = "idle"
    /\ Len(logs) = 1
    /\ logs[1] \in {ExportedLine(ManifestPath), ExportFailedLine(RejectionString)}
    /\ xpc' = "open"
    /\ UNCHANGED <<xsteps, exported>>
    /\ UNCHANGED buildVars
    /\ UNCHANGED notStudioVars

\* The open dialog closes: without a selection the handler returns, with
\* one it invokes read_text_file.
OpenCloses(selected) ==
    /\ xpc = "open"
    /\ IF selected
       THEN /\ calls' = Append(calls, Call("read_text_file", [path |-> ManifestPath]))
            /\ xpc' = "read"
       ELSE /\ xpc' = "idle"
            /\ UNCHANGED calls
    /\ UNCHANGED <<xsteps, exported>>
    /\ UNCHANGED <<steps, building, logs, bpc, bsteps, breq, btarget, asked>>
    /\ UNCHANGED notStudioVars

\* read_text_file resolves with the text of the exported file: JSON.parse,
\* applyManifest, and the log line.  The replacement values of an exported
\* manifest are strings, so there is no warning.
ReadResolves ==
    /\ xpc = "read"
    /\ exported.written
    /\ Len(logs) < MaxLogs
    /\ steps' = ApplyManifest(exported.contents)
    /\ logs' = Append(logs, ImportedLine(ManifestPath))
    /\ xpc' = "idle"
    /\ UNCHANGED <<xsteps, exported>>
    /\ UNCHANGED <<building, bpc, bsteps, breq, btarget, asked, calls>>
    /\ UNCHANGED notStudioVars

\* read_text_file rejects.
ReadRejects ==
    /\ xpc = "read"
    /\ Len(logs) < MaxLogs
    /\ logs' = Append(logs, ImportFailedLine(RejectionString))
    /\ xpc' = "idle"
    /\ UNCHANGED <<xsteps, exported>>
    /\ UNCHANGED <<steps, building, bpc, bsteps, breq, btarget, asked, calls>>
    /\ UNCHANGED notStudioVars

NextBuild ==
    \/ ClickExport
    \/ \E chosen \in BOOLEAN : SaveCloses(chosen)
    \/ WriteResolves
    \/ WriteRejects
    \/ ClickImport
    \/ \E selected \in BOOLEAN : OpenCloses(selected)
    \/ ReadResolves
    \/ ReadRejects
    \/ \E type \in StepTypes : AddStep(type)
    \/ \E i \in 1..MaxSteps, to \in StepPool : UpdateStep(i, to)
    \/ \E i \in 1..MaxSteps : RemoveStep(i)
    \/ ClickForge
    \/ \E target \in Targets : InspectResolves(target)
    \/ CommandRejects
    \/ \E warn \in BOOLEAN : AnswerNoMarker(warn)
    \/ \E confirmDelete \in BOOLEAN : AnswerDelete(confirmDelete)
    \/ \E confirmDelete \in BOOLEAN : AnswerOverwrite(confirmDelete)
    \/ BuildResolves
    \/ LogEvent

SpecBuild == InitBuild /\ [][NextBuild]_vars

(***************************************************************************)
(* Key-path resolver.  A key path is a sequence of characters; "a" stands  *)
(* for any character that is neither the dot nor the backslash.            *)
(***************************************************************************)
Segments(segs) == [ok |-> TRUE, segments |-> segs, error |-> ""]

MalformedKeyPath == [ok |-> FALSE, segments |-> <<>>, error |-> "MalformedKeyPath"]

RECURSIVE SplitOnEveryDot(_, _, _, _)
\* A resolver that knows no escape: every dot ends a segment.
SplitOnEveryDot(s, cur, segs, keep) ==
    IF s = <<>> THEN Segments(Append(segs, cur))
    ELSE IF Head(s) = "." THEN SplitOnEveryDot(Tail(s), <<>>, Append(segs, cur), keep)
    ELSE SplitOnEveryDot(Tail(s), Append(cur, Head(s)), segs, keep)

RECURSIVE ResolveKeyPath(_, _, _, _)
\* The resolver, reading s with the segment cur begun and the segments segs
\* done: an unescaped dot ends the segment, a backslash before a dot gives
\* a literal dot, a backslash at the end is an unterminated escape.  What a
\* backslash before any other character gives is not said: the resolver
\* keeps the backslash (keep) or drops it.
ResolveKeyPath(s, cur, segs, keep) ==
    IF s = <<>> THEN Segments(Append(segs, cur))
    ELSE IF Head(s) = "\\"
    THEN IF Len(s) = 1 THEN MalformedKeyPath
         ELSE IF s[2] = "."
         THEN ResolveKeyPath(SubSeq(s, 3, Len(s)), Append(cur, "."), segs, keep)
         ELSE ResolveKeyPath(SubSeq(s, 3, Len(s)),
                             IF keep THEN cur \o <<"\\", s[2]>> ELSE Append(cur, s[2]),
                             segs, keep)
    ELSE IF Head(s) = "." THEN ResolveKeyPath(Tail(s), <<>>, Append(segs, cur), keep)
    ELSE ResolveKeyPath(Tail(s), Append(cur, Head(s)), segs, keep)

\* Key paths have at most MaxKeyLen characters.
MaxKeyLen == 4

KeyPaths == SeqsUpTo({"a", ".", "\\"}, MaxKeyLen)

\* The first key path is the empty one; every other comes up after it.
InitKeyPath ==
    /\ KeyIdle
    /\ PatchIdle
    /\ BuildIdle
    /\ InstallerIdle
    /\ EngineIdle

\* The engine resolves the key path of a setJsonValue step.
Resolve(keep) ==
    /\ kresult = NotResolved
    /\ kresult' = ResolveKeyPath(kpath, <<>>, <<>>, keep)
    /\ UNCHANGED kpath
    /\ UNCHANGED notKeyVars

\* The next step of the manifest comes up.
NextKeyPath(path) ==
    /\ kresult # NotResolved
    /\ kpath' = path
    /\ kresult' = NotResolved
    /\ UNCHANGED notKeyVars

NextKey ==
    \/ \E keep \in BOOLEAN : Resolve(keep)
    \/ \E path \in KeyPaths : NextKeyPath(path)

SpecKeyPath == InitKeyPath /\ [][NextKey]_vars

(***************************************************************************)
(* Marker patch.  A marker is one token: StartMarker, EndMarker.  Every    *)
(* other token stands for text that holds no marker.                       *)
(***************************************************************************)
StartMarker == "S"
EndMarker == "E"

\* The regular expression (?s)START.*?END: the span of its leftmost match in
\* text at or after position from, as <<first, last>>, or <<0, 0>>.
FirstMatch(text, from) ==
    LET starts == {i \in Positions(text, StartMarker) : i >= from}
        withEnd == {i \in starts : \E j \in Positions(text, EndMarker) : j > i}
    IN  IF withEnd = {} THEN <<0, 0>>
        ELSE LET i == Min(withEnd)
                 j == Min({k \in Positions(text, EndMarker) : k > i})
             IN  <<i, j>>

\* $content -match $pattern
PatternMatches(text) == FirstMatch(text, 1) # <<0, 0>>

\* grep -qF "$start_marker" "$path"
GrepStartMarker(text) == Positions(text, StartMarker) # {}

RECURSIVE RegexReplaceFrom(_, _, _)
\* [regex]::Replace(input, pattern, evaluator): every non-overlapping match,
\* left to right, is replaced by the block; the block is not scanned again.
RegexReplaceFrom(text, from, block) ==
    LET m == FirstMatch(text, from)
    IN  IF m = <<0, 0>> THEN SubSeq(text, from, Len(text))
        ELSE SubSeq(text, from, m[1] - 1) \o block
             \o RegexReplaceFrom(text, m[2] + 1, block)

\* [regex]::Replace($content, $pattern, { param($m) $BlockContent })
RegexReplaceAll(text, block) == RegexReplaceFrom(text, 1, block)

\* perl -0777 -pe 's/\Q$START\E.*?\Q$END\E/$block/s': the first match only;
\* without a match the text is printed as it is.
PerlSubstituteFirst(text, block) ==
    LET m == FirstMatch(text, 1)
    IN  IF m = <<0, 0>> THEN text
        ELSE SubSeq(text, 1, m[1] - 1) \o block \o SubSeq(text, m[2] + 1, Len(text))

\* The line break each script writes around an appended block.
CrLf == <<"\r\n">>
Lf == <<"\n">>

\* Update-FileBlock, the branch taken for an existing file.
Ps1Branch(text) == IF PatternMatches(text) THEN "replace" ELSE "append"

\* Update-FileBlock with the line break before the appended block left out.
Ps1PatchedNoLeadingBreak(text, block) ==
    IF PatternMatches(text) THEN RegexReplaceAll(text, block)
    ELSE text \o block \o CrLf

\* Update-FileBlock, the new content of an existing file.
Ps1Patched(text, block) ==
    IF PatternMatches(text) THEN RegexReplaceAll(text, block)
    ELSE text \o CrLf \o block \o CrLf

\* update_file_block, the branch taken for an existing file.
ShBranch(text) == IF GrepStartMarker(text) THEN "replace" ELSE "append"

\* update_file_block with the marker test always failing: it only appends.
ShPatchedAlwaysAppend(text, block) == text \o Lf \o block \o Lf

\* update_file_block, the new content of an existing file.
ShPatched(text, block) ==
    IF GrepStartMarker(text) THEN PerlSubstituteFirst(text, block)
    ELSE text \o Lf \o block \o Lf

(***************************************************************************)
(* Bounds and inputs of SpecPatch.                                         *)
(***************************************************************************)
\* Longest target file before the first application.
MaxFileLen == 4
\* Most applications of a patch to the file.
MaxPatches == 2

\* The tokens a target file is made of.
FileTokens == {StartMarker, EndMarker, "a"}

\* The block contents a caller supplies: wrapped in the marker pair, or bare.
Blocks ==
    { <<StartMarker, "b", EndMarker>>, <<StartMarker, "c", EndMarker>>,
      <<"b">>, <<"c">> }

\* Every target file the model starts from: any text of up to MaxFileLen
\* tokens, or no file at all.
InitialFiles == {File(t) : t \in SeqsUpTo(FileTokens, MaxFileLen)} \cup {Missing}

InitPatch ==
    /\ script \in {"ps1", "sh"}
    /\ pfile \in InitialFiles
    /\ pfile0 = pfile
    /\ applied = <<>>
    /\ paths = <<>>
    /\ pout = <<>>
    /\ pexit = "running"
    /\ BuildIdle
    /\ InstallerIdle
    /\ EngineIdle
    /\ KeyIdle

\* apply.ps1: one call of Update-FileBlock.  A missing file is a warning and
\* the script goes on.
UpdateFileBlockPs1(block) ==
    /\ script = "ps1"
    /\ pexit = "running"
    /\ Len(applied) < MaxPatches
    /\ applied' = Append(applied, block)
    /\ IF pfile = Missing
       THEN /\ pout' = Append(pout, "WARNING: Missing file")
            /\ paths' = Append(paths, "missing")
            /\ UNCHANGED pfile
       ELSE /\ pfile' = File(Ps1Patched(pfile.text, block))
            /\ paths' = Append(paths, Ps1Branch(pfile.text))
            /\ pout' = Append(pout, "Patched")
    /\ UNCHANGED <<script, pfile0, pexit>>
    /\ UNCHANGED notPatchVars

\* apply-macos.sh: one call of update_file_block.  A missing file returns 1,
\* which under set -e ends the script.
UpdateFileBlockSh(block) ==
    /\ script = "sh"
    /\ pexit = "running"
    /\ Len(applied) < MaxPatches
    /\ applied' = Append(applied, block)
    /\ IF pfile = Missing
       THEN /\ pout' = Append(pout, "Missing file")
            /\ paths' = Append(paths, "missing")
            /\ pexit' = "exit 1"
            /\ UNCHANGED pfile
       ELSE /\ pfile' = File(ShPatched(pfile.text, block))
            /\ paths' = Append(paths, ShBranch(pfile.text))
            /\ pout' = Append(pout, "Patched")
            /\ UNCHANGED pexit
    /\ UNCHANGED <<script, pfile0>>
    /\ UNCHANGED notPatchVars

NextPatch ==
    \/ \E block \in Blocks : UpdateFileBlockPs1(block)
    \/ \E block \in Blocks : UpdateFileBlockSh(block)

SpecPatch == InitPatch /\ [][NextPatch]_vars

(***************************************************************************)
(* Measures of a patched file, used by the properties below.               *)
(***************************************************************************)
RECURSIVE CountBlocksFrom(_, _)
\* The number of marker-delimited blocks of text from position from on: a
\* block runs from a start marker to the first end marker after it, and the
\* next block is looked for after that end marker.
CountBlocksFrom(text, from) ==
    LET opens == {i \in from..Len(text) : text[i] = StartMarker}
        closed == {i \in opens : \E j \in (i + 1)..Len(text) : text[j] = EndMarker}
    IN  IF closed = {} THEN 0
        ELSE LET i == Min(closed)
                 j == Min({k \in (i + 1)..Len(text) : text[k] = EndMarker})
             IN  1 + CountBlocksFrom(text, j + 1)

CountBlocks(text) == CountBlocksFrom(text, 1)

\* The first marker-delimited block of a text that has one.
FirstBlock(text) ==
    LET i == Min({k \in 1..Len(text) : text[k] = StartMarker
                    /\ \E j \in (k + 1)..Len(text) : text[j] = EndMarker})
        j == Min({k \in (i + 1)..Len(text) : text[k] = EndMarker})
    IN  SubSeq(text, i, j)

\* part occurs in whole as a run of consecutive tokens.
Holds(whole, part) ==
    \E i \in 1..(Len(whole) - Len(part) + 1) :
        SubSeq(whole, i, i + Len(part) - 1) = part

\* The content begins with the start marker and ends with the end marker.
Bracketed(block) ==
    /\ Len(block) >= 2
    /\ block[1] = StartMarker
    /\ block[Len(block)] = EndMarker

\* The content is wrapped in exactly one marker pair.
Wrapped(block) ==
    /\ Bracketed(block)
    /\ \A i \in 2..(Len(block) - 1) : block[i] \notin {StartMarker, EndMarker}

\* The line break the running script puts around an appended block.
LineBreak == IF script = "ps1" THEN CrLf ELSE Lf

\* The file held a start marker with no end marker after it.
DanglingStart(text) ==
    \E i \in 1..Len(text) :
        /\ text[i] = StartMarker
        /\ \A j \in (i + 1)..Len(text) : text[j] # EndMarker

AbsentStartCase ==
    /\ pfile0.exists
    /\ ~Holds(pfile0.text, <<StartMarker>>)
    /\ Len(applied) >= 1

\* The file after its first application, when that one appended.
AppendedOnce == pfile0.text \o LineBreak \o applied[1] \o LineBreak

HasSpan(text) ==
    /\ Positions(text, StartMarker) # {}
    /\ \E j \in Positions(text, EndMarker) : j > Min(Positions(text, StartMarker))

\* The text with the span from its first start marker through the first end
\* marker after it replaced by the block, and nothing else changed.
FirstSpanReplaced(text, block) ==
    LET i == Min(Positions(text, StartMarker))
        j == Min({k \in Positions(text, EndMarker) : k > i})
    IN  SubSeq(text, 1, i - 1) \o block \o SubSeq(text, j + 1, Len(text))

\* C15: the first application to a file whose first start marker has an end
\* marker after it replaces that one span by the content and leaves all
\* text outside it, later marker pairs included, as it was.
C15_AsStated ==
    (pfile0.exists /\ HasSpan(pfile0.text) /\ Len(applied) = 1)
        => pfile.text = FirstSpanReplaced(pfile0.text, applied[1])

\* C15 holds of apply-macos.sh, whose perl substitution has no g flag.
ShReplacesFirstSpan ==
    (script = "sh" /\ pfile0.exists /\ HasSpan(pfile0.text) /\ Len(applied) = 1)
        => pfile.text = FirstSpanReplaced(pfile0.text, applied[1])

\* apply.ps1 has replaced both marker pairs of a file that held two.
Ps1ReplacedEverySpan ==
    /\ script = "ps1"
    /\ pfile0 = File(<<StartMarker, EndMarker, StartMarker, EndMarker>>)
    /\ applied = << <<"b">> >>
    /\ pfile = File(<<"b", "b">>)

\* C16: an application that finds no target file creates none, prints the
\* missing-file message and not the line of a patch done, and is the last
\* step of the run: the script has ended with a failure.
C16_AsStated ==
    \A k \in 1..Len(paths) :
        paths[k] = "missing"
            => /\ pfile = Missing
               /\ pout[k] \in {"WARNING: Missing file", "Missing file"}
               /\ Len(applied) = k
               /\ pexit # "running"

\* C16 holds of apply-macos.sh: return 1 under set -e ends the script.
ShHaltsOnMissingTarget ==
    script = "sh"
        => \A k \in 1..Len(paths) :
              paths[k] = "missing"
                  => /\ pfile = Missing
                     /\ pout[k] = "Missing file"
                     /\ Len(applied) = k
                     /\ pexit = "exit 1"

\* apply.ps1 has gone on to the next call after a missing target.
Ps1WentOnAfterMissing ==
    /\ script = "ps1"
    /\ paths = <<"missing", "missing">>
    /\ pexit = "running"

(***************************************************************************)
(* Installer: the component from its mount on.  Each action is the stretch *)
(* of a handler between two awaits.  The operators that end in Ui change   *)
(* the variables of the component only.                                    *)
(***************************************************************************)
\* A manifest as the Installer reads it; the steps carry what the engine
\* needs of them.
InstallManifest(app, installSteps) ==
    [appName |-> app, version |-> "1", advancedMode |-> FALSE,
     installSteps |-> installSteps]

\* The same with advancedMode set.
AdvancedManifest(app, installSteps) ==
    [InstallManifest(app, installSteps) EXCEPT !.advancedMode = TRUE]

PayloadText == <<"b">>
BlockText == <<"S", "c", "E">>

EngineCopy(dest, content) == [type |-> "copy", dest |-> dest, content |-> content]
EnginePatchBlock(file, content) == [type |-> "patchBlock", file |-> file, content |-> content]
EngineRunCommand(command) == [type |-> "runCommand", command |-> command]

\* The manifests get_manifest may answer.
ManifestPool ==
    { InstallManifest("A", << EngineCopy("p1", PayloadText),
                              EnginePatchBlock("p1", BlockText),
                              EngineCopy("p2", PayloadText) >>),
      InstallManifest("A", << EnginePatchBlock("p2", BlockText),
                              EngineRunCommand("c"),
                              EngineCopy("p2", PayloadText) >>),
      InstallManifest("B", << EngineCopy("p2", BlockText) >>),
      AdvancedManifest("A", << EnginePatchBlock("p1", BlockText),
                               EnginePatchBlock("p1", BlockText) >>) }

\* manifest.installSteps.filter(step => step.type === 'runCommand').length > 0
HasCommandSteps(man) ==
    \E k \in 1..Len(man.installSteps) : man.installSteps[k].type = "runCommand"

\* addLog: the time of day, then the message.
LogLine(msg) == <<"[time] ">> \o msg

\* An invocation of a backend command: consent tells whether the handler
\* that invoked it had its 'Run commands?' confirmation accepted.
Invocation(cmd, arg, consent) ==
    [cmd |-> cmd, arg |-> arg, consent |-> consent, state |-> "pending"]

Pending(cmd) == {i \in 1..Len(icalls) : icalls[i].cmd = cmd /\ icalls[i].state = "pending"}

\* The log panel holds at most MaxInstallerLogs lines.
MaxInstallerLogs == 5
\* At most MaxDialogs confirmations wait at a time.
MaxDialogs == 2
\* The Installer is mounted at most MaxSessions times.
MaxSessions == 2

\* load: get_manifest resolves.
LoadResolvesUi(man) ==
    /\ status = "loading"
    /\ manifest' = man
    /\ status' = "ready"
    /\ ilogs' = Append(ilogs, LogLine(<<"Decree loaded for ", man.appName, " v", man.version>>))
    /\ UNCHANGED <<errorMsg, dialogs, icalls, sessions>>

\* load: get_manifest rejects.
LoadRejectsUi(e) ==
    /\ status = "loading"
    /\ status' = "error"
    /\ errorMsg' = <<"Failed to load decree: ", e>>
    /\ ilogs' = Append(ilogs, LogLine(<<"Error: ", e>>))
    /\ UNCHANGED <<manifest, dialogs, icalls, sessions>>

\* handleInstall from setStatus('installing') to the await of run_install.
InstallProceeds(consent) ==
    /\ status' = "installing"
    /\ ilogs' = Append(ilogs, LogLine(<<"Enacting installation...">>))
    /\ icalls' = Append(icalls, Invocation("run_install", manifest, consent))

\* handleInstall without the confirmation.
ClickInstallNoConfirmUi ==
    /\ status = "ready"
    /\ manifest # NoManifest
    /\ Len(ilogs) < MaxInstallerLogs
    /\ InstallProceeds(FALSE)
    /\ UNCHANGED <<manifest, errorMsg, dialogs, sessions>>

\* handleInstall, from the click to the first await.  The button is rendered
\* while the status is 'ready'.
ClickInstallUi ==
    /\ status = "ready"
    /\ manifest # NoManifest
    /\ Len(ilogs) < MaxInstallerLogs
    /\ IF HasCommandSteps(manifest)
       THEN /\ dialogs < MaxDialogs
            /\ dialogs' = dialogs + 1
            /\ UNCHANGED <<status, ilogs, icalls>>
       ELSE /\ InstallProceeds(FALSE)
            /\ UNCHANGED dialogs
    /\ UNCHANGED <<manifest, errorMsg, sessions>>

\* handleInstall after the operator answered 'Run commands?'.
AnswerRunCommandsUi(proceed) ==
    /\ dialogs > 0
    /\ dialogs' = dialogs - 1
    /\ IF proceed
       THEN InstallProceeds(TRUE)
       ELSE /\ ilogs' = Append(ilogs, LogLine(<<"Installation cancelled by user.">>))
            /\ UNCHANGED <<status, icalls>>
    /\ UNCHANGED <<manifest, errorMsg, sessions>>

\* handleInstall after run_install resolved.
InstallResolvesUi(i) ==
    /\ i \in Pending("run_install")
    /\ icalls' = [icalls EXCEPT ![i].state = "resolved"]
    /\ status' = "complete"
    /\ ilogs' = Append(ilogs, LogLine(<<"Decree enacted.">>))
    /\ UNCHANGED <<manifest, errorMsg, dialogs, sessions>>

\* handleInstall after run_install rejected, with the catch block taken for
\* the success path.
InstallRejectsAsCompleteUi(i, e) ==
    /\ i \in Pending("run_install")
    /\ icalls' = [icalls EXCEPT ![i].state = "rejected"]
    /\ status' = "complete"
    /\ ilogs' = Append(ilogs, LogLine(<<"Decree enacted.">>))
    /\ UNCHANGED <<manifest, errorMsg, dialogs, sessions>>

\* handleInstall after run_install rejected.
InstallRejectsUi(i, e) ==
    /\ i \in Pending("run_install")
    /\ icalls' = [icalls EXCEPT ![i].state = "rejected"]
    /\ status' = "error"
    /\ errorMsg' = <<"Enactment failed: ", e>>
    /\ ilogs' = Append(ilogs, LogLine(<<"Error: ", e>>))
    /\ UNCHANGED <<manifest, dialogs, sessions>>

\* handleRestore, from the click to the await of restore_backup.
ClickRestoreUi ==
    /\ status = "ready"
    /\ manifest # NoManifest
    /\ Len(ilogs) < MaxInstallerLogs
    /\ status' = "installing"
    /\ ilogs' = Append(ilogs, LogLine(<<"Restoring from the royal archive...">>))
    /\ icalls' = Append(icalls, Invocation("restore_backup", manifest.appName, FALSE))
    /\ UNCHANGED <<manifest, errorMsg, dialogs, sessions>>

\* handleRestore after restore_backup resolved.
RestoreResolvesUi(i) ==
    /\ i \in Pending("restore_backup")
    /\ icalls' = [icalls EXCEPT ![i].state = "resolved"]
    /\ status' = "complete"
    /\ ilogs' = Append(ilogs, LogLine(<<"Restoration complete.">>))
    /\ UNCHANGED <<manifest, errorMsg, dialogs, sessions>>

\* handleRestore with an empty catch block: the rejection leaves no trace.
RestoreRejectsSilentUi(i, e) ==
    /\ i \in Pending("restore_backup")
    /\ icalls' = [icalls EXCEPT ![i].state = "rejected"]
    /\ UNCHANGED <<manifest, status, errorMsg, ilogs, dialogs, sessions>>

\* handleRestore after restore_backup rejected.
RestoreRejectsUi(i, e) ==
    /\ i \in Pending("restore_backup")
    /\ icalls' = [icalls EXCEPT ![i].state = "rejected"]
    /\ status' = "error"
    /\ errorMsg' = <<"Restoration failed: ", e>>
    /\ ilogs' = Append(ilogs, LogLine(<<"Restore Error: ", e>>))
    /\ UNCHANGED <<manifest, dialogs, sessions>>

\* The log listener: addLog(event.payload).
LogEventUi ==
    /\ ilogs' = Append(ilogs, LogLine(<<"payload">>))
    /\ UNCHANGED <<manifest, status, errorMsg, dialogs, icalls, sessions>>

(***************************************************************************)
(* SpecInstaller: the component with the backend commands as calls that    *)
(* resolve or reject at any time; clicks and answers interleave freely.    *)
(***************************************************************************)
InitInstaller ==
    /\ InstallerMounts
    /\ sessions = 1
    /\ PatchIdle
    /\ BuildIdle
    /\ EngineIdle
    /\ KeyIdle

LoadResolves(man) == LoadResolvesUi(man) /\ UNCHANGED notInstallerVars

LoadRejects == LoadRejectsUi("error") /\ UNCHANGED notInstallerVars

ClickInstall == ClickInstallUi /\ UNCHANGED notInstallerVars

AnswerRunCommands(proceed) == AnswerRunCommandsUi(proceed) /\ UNCHANGED notInstallerVars

InstallResolves(i) == InstallResolvesUi(i) /\ UNCHANGED notInstallerVars

InstallRejects(i) == InstallRejectsUi(i, "error") /\ UNCHANGED notInstallerVars

ClickRestore == ClickRestoreUi /\ UNCHANGED notInstallerVars

RestoreResolves(i) == RestoreResolvesUi(i) /\ UNCHANGED notInstallerVars

RestoreRejects(i) == RestoreRejectsUi(i, "error") /\ UNCHANGED notInstallerVars

\* The backend emits a log line while a command runs.
LogEmitted ==
    /\ Pending("run_install") \cup Pending("restore_backup") # {}
    /\ Len(ilogs) + 1 < MaxInstallerLogs
    /\ LogEventUi
    /\ UNCHANGED notInstallerVars

NextInstaller ==
    \/ \E man \in ManifestPool : LoadResolves(man)
    \/ LoadRejects
    \/ ClickInstall
    \/ \E proceed \in BOOLEAN : AnswerRunCommands(proceed)
    \/ \E i \in 1..Len(icalls) : InstallResolves(i)
    \/ \E i \in 1..Len(icalls) : InstallRejects(i)
    \/ ClickRestore
    \/ \E i \in 1..Len(icalls) : RestoreResolves(i)
    \/ \E i \in 1..Len(icalls) : RestoreRejects(i)
    \/ LogEmitted

SpecInstaller == InitInstaller /\ [][NextInstaller]_vars

(***************************************************************************)
(* SpecEngine: the Installer driving the install engine.  The engine has   *)
(* no source in the repository; the step executor, the backup manager and  *)
(* the restore engine follow sections 4.2 to 4.5 and 7 of the              *)
(* specification.  One operation runs at a time (section 5), a run takes   *)
(* a timestamp later than every earlier one, and files stand for files     *)
(* and directory trees alike.                                              *)
(***************************************************************************)
\* Marker Patch Engine: the span from the start marker through the first end
\* marker after it is replaced by the content; without a span the content is
\* appended between two line breaks.
EnginePatched(text, content) ==
    LET m == FirstMatch(text, 1)
    IN  IF m # <<0, 0>>
        THEN SubSeq(text, 1, m[1] - 1) \o content \o SubSeq(text, m[2] + 1, Len(text))
        ELSE text \o Lf \o content \o Lf

\* The path a step writes, or "" for a step that writes no file.
StepPath(step) ==
    IF step.type = "copy" THEN step.dest
    ELSE IF step.type = "patchBlock" THEN step.file
    ELSE ""

\* Whether the step can be performed on the files at all: a patch needs its
\* target (MissingPatchTarget).
Performable(files, step) ==
    step.type = "patchBlock" => files[step.file] # Missing

\* The files after the step succeeded.
Performed(files, step) ==
    IF step.type = "copy"
    THEN [files EXCEPT ![step.dest] = File(step.content)]
    ELSE IF step.type = "patchBlock"
    THEN [files EXCEPT ![step.file] = File(EnginePatched(files[step.file].text, step.content))]
    ELSE files

\* The backup directory of a run, if it has been created.
RunBackups(bks, r) == {b \in bks : b.root = "app" /\ b.app = r.app /\ b.ts = r.ts}

\* The backup directories after the run archived a file: the directory is
\* created with the first file archived, and an entry is never rewritten.
Archive(bks, r, path, file) ==
    IF RunBackups(bks, r) = {}
    THEN bks \cup {[root |-> "app", app |-> r.app, ts |-> r.ts,
                    entries |-> [p \in Paths |-> IF p = path THEN file ELSE Missing]]}
    ELSE {IF b \in RunBackups(bks, r) THEN [b EXCEPT !.entries[path] = file] ELSE b :
             b \in bks}

\* A snapshot as the run and the claims see it: what was captured, and
\* whether the run had written the path before.
SnapshotEvent(r, files, path) ==
    [path |-> path, copy |-> files[path], late |-> path \in r.touched]

\* snapshot(path) that forgets a path it found missing.
SnapshotForgetsMissing(r, bks, files, path) ==
    IF path \in r.seen \/ files[path] = Missing
    THEN [run |-> r, backups |-> bks]
    ELSE [run |-> [r EXCEPT !.seen = @ \cup {path},
                            !.snaps = Append(@, SnapshotEvent(r, files, path))],
          backups |-> Archive(bks, r, path, files[path])]

\* snapshot(path) that archives at every call.
SnapshotEveryTouch(r, bks, files, path) ==
    [run |-> [r EXCEPT !.seen = @ \cup {path},
                       !.snaps = Append(@, SnapshotEvent(r, files, path))],
     backups |-> IF files[path] = Missing THEN bks
                 ELSE Archive(bks, r, path, files[path])]

\* Backup Manager, snapshot(path): once per path and run it captures what
\* is there, and nothing is a valid prior state (a missing target is a
\* success that archives no file).
Snapshot(r, bks, files, path) ==
    IF path \in r.seen
    THEN [run |-> r, backups |-> bks]
    ELSE [run |-> [r EXCEPT !.seen = @ \cup {path},
                            !.snaps = Append(@, SnapshotEvent(r, files, path))],
          backups |-> IF files[path] = Missing THEN bks
                      ELSE Archive(bks, r, path, files[path])]

\* A run begins on the manifest run_install was given.
\* A patch that writes its content as supplied, whatever the mode.
PatchAsSupplied(step) == step

\* Marker Patch Engine in advancedMode, the one-shot patch: the markers are
\* stripped from the content before it is written.
OneShotPatch(step) ==
    [step EXCEPT !.content = SelectSeq(@, LAMBDA t : t \notin {StartMarker, EndMarker})]

\* The steps as the run executes them.
RunSteps(man) ==
    [i \in 1..Len(man.installSteps) |->
        IF man.advancedMode /\ man.installSteps[i].type = "patchBlock"
        THEN OneShotPatch(man.installSteps[i])
        ELSE man.installSteps[i]]

NewRun(man, ts, files) ==
    [phase |-> "running", app |-> man.appName, steps |-> RunSteps(man), k |-> 1,
     ts |-> ts, pre |-> files, seen |-> {}, touched |-> {}, trace |-> <<>>,
     snaps |-> <<>>, failed |-> 0]

\* Step Executor: the next step after a success, the halt after a failure.
AfterStep(r, ok) ==
    IF ok THEN [r EXCEPT !.k = @ + 1] ELSE [r EXCEPT !.phase = "failed"]

\* Restore Engine: the backups of the application, and those of the legacy
\* root.
AppBackups(bks, app) == {b \in bks : b.root = "app" /\ b.app = app}
LegacyBackups(bks) == {b \in bks : b.root = "legacy"}

Earliest(S) == CHOOSE b \in S : \A c \in S : b.ts <= c.ts

\* The most recent backup by timestamp ordering.
Latest(S) == CHOOSE b \in S : \A c \in S : c.ts <= b.ts

\* The backups restore may replay: the latest of the application, or else
\* one of the legacy root.
Candidates(bks, app) ==
    IF AppBackups(bks, app) # {} THEN {Latest(AppBackups(bks, app))}
    ELSE LegacyBackups(bks)

\* Every archived path is written over its original location.
Replay(files, entries) ==
    [p \in Paths |-> IF entries[p] # Missing THEN entries[p] ELSE files[p]]

\* Texts of the files that are there before the first run.
InitialTexts == {<<"a">>, <<"S", "a", "E">>}

\* Backups that earlier installs left behind.
OldBackups ==
    { [root |-> "app", app |-> "A", ts |-> 0,
       entries |-> [p \in Paths |-> IF p = "p1" THEN File(<<"o">>) ELSE Missing]],
      [root |-> "legacy", app |-> "", ts |-> 0,
       entries |-> [p \in Paths |-> IF p = "p2" THEN File(<<"o">>) ELSE Missing]] }

InitEngine ==
    /\ InstallerMounts
    /\ sessions = 1
    /\ fs \in [Paths -> {Missing} \cup {File(t) : t \in InitialTexts}]
    /\ backups \in SUBSET OldBackups
    /\ clock = 1
    /\ run = NoRun
    /\ rest = NoRestore
    /\ PatchIdle
    /\ BuildIdle
    /\ KeyIdle

\* The engine takes up the run_install the step has invoked, if any.
EngineTakesCall ==
    IF Len(icalls') > Len(icalls) /\ icalls'[Len(icalls')].cmd = "run_install"
    THEN /\ run' = NewRun(icalls'[Len(icalls')].arg, clock, fs)
         /\ clock' = clock + 1
         /\ rest' = NoRestore
         /\ UNCHANGED <<fs, backups>>
    ELSE UNCHANGED engineVars

ManifestLoads(man) == LoadResolvesUi(man) /\ UNCHANGED engineVars /\ UNCHANGED notEngineVars

ManifestFails == LoadRejectsUi("error") /\ UNCHANGED engineVars /\ UNCHANGED notEngineVars

\* A click on 'Enact Install' while no confirmation waits.
SerialClickInstall ==
    /\ dialogs = 0
    /\ ClickInstallUi
    /\ EngineTakesCall
    /\ UNCHANGED notEngineVars

SerialAnswerRunCommands(proceed) ==
    /\ AnswerRunCommandsUi(proceed)
    /\ EngineTakesCall
    /\ UNCHANGED notEngineVars

\* A click on 'Restore Archive' while no confirmation waits.
SerialClickRestore ==
    /\ dialogs = 0
    /\ ClickRestoreUi
    /\ UNCHANGED engineVars
    /\ UNCHANGED notEngineVars

\* Step Executor, one step: snapshot of the path, the mutation, a log line.
\* Any step may fail; a patch of a missing target does.
ExecStep(ok) ==
    /\ run.phase = "running"
    /\ run.k <= Len(run.steps)
    /\ LET step == run.steps[run.k]
           path == StepPath(step)
           snap == IF path = "" THEN [run |-> run, backups |-> backups]
                   ELSE Snapshot(run, backups, fs, path)
           done == ok /\ Performable(fs, step)
           r == [snap.run EXCEPT !.trace = Append(@, run.k),
                                 !.touched = IF done /\ path # "" THEN @ \cup {path} ELSE @,
                                 !.failed = IF ~done /\ @ = 0 THEN run.k ELSE @]
       IN  /\ backups' = snap.backups
           /\ fs' = IF done THEN Performed(fs, step) ELSE fs
           /\ run' = AfterStep(r, done)
    /\ LogEventUi
    /\ UNCHANGED <<clock, rest>>
    /\ UNCHANGED notEngineVars

\* run_install resolves after the last step.
RunCompletes ==
    /\ run.phase = "running"
    /\ run.k > Len(run.steps)
    /\ run' = [run EXCEPT !.phase = "done"]
    /\ \E i \in Pending("run_install") : InstallResolvesUi(i)
    /\ UNCHANGED <<fs, backups, clock, rest>>
    /\ UNCHANGED notEngineVars

\* run_install rejects with the error of the failed step.
RunHalts ==
    /\ run.phase = "failed"
    /\ run' = [run EXCEPT !.phase = "halted"]
    /\ \E i \in Pending("run_install") : InstallRejectsUi(i, "StepFailed")
    /\ UNCHANGED <<fs, backups, clock, rest>>
    /\ UNCHANGED notEngineVars

\* Restore Engine, restore(app_name), and handleRestore after it.
RestoreReturns ==
    /\ \E i \in Pending("restore_backup") :
          LET app == icalls[i].arg
              follows == run.phase \in {"done", "halted"} /\ rest = NoRestore
                         /\ run.app = app
          IN  IF Candidates(backups, app) = {}
              THEN /\ rest' = [app |-> app, result |-> "NoBackupFound", root |-> "",
                               ts |-> 0, before |-> fs, follows |-> follows]
                   /\ RestoreRejectsUi(i, "NoBackupFound")
                   /\ UNCHANGED <<fs, backups, clock, run>>
              ELSE \E b \in Candidates(backups, app) :
                   /\ fs' = Replay(fs, b.entries)
                   /\ rest' = [app |-> app, result |-> "ok", root |-> b.root,
                               ts |-> b.ts, before |-> fs, follows |-> follows]
                   /\ RestoreResolvesUi(i)
                   /\ UNCHANGED <<backups, clock, run>>
    /\ UNCHANGED notEngineVars

\* The Installer is closed and opened again: the component mounts anew.
Relaunch ==
    /\ status \in {"ready", "complete", "error"}
    /\ dialogs = 0
    /\ Pending("run_install") \cup Pending("restore_backup") = {}
    /\ sessions < MaxSessions
    /\ manifest' = NoManifest
    /\ status' = "loading"
    /\ ilogs' = <<>>
    /\ errorMsg' = <<>>
    /\ icalls' = <<>>
    /\ sessions' = sessions + 1
    /\ UNCHANGED dialogs
    /\ UNCHANGED engineVars
    /\ UNCHANGED notEngineVars

NextEngine ==
    \/ \E man \in ManifestPool : ManifestLoads(man)
    \/ ManifestFails
    \/ SerialClickInstall
    \/ \E proceed \in BOOLEAN : SerialAnswerRunCommands(proceed)
    \/ SerialClickRestore
    \/ \E ok \in BOOLEAN : ExecStep(ok)
    \/ RunCompletes
    \/ RunHalts
    \/ RestoreReturns
    \/ Relaunch

SpecEngine == InitEngine /\ [][NextEngine]_vars

(***************************************************************************)
(* Studio: what the claims about handleBuild speak of.                     *)
(***************************************************************************)
PayloadKinds == {"copy", "patchBlock", "base64Embed"}

\* The source a step stages, as the form holds it.
SourceField(step) ==
    IF step.type = "copy" THEN step.payloadSource
    ELSE IF step.type = "patchBlock" THEN step.contentSource
    ELSE step.inputSource

\* The payload-relative path the form holds for it.
RelField(step) ==
    IF step.type = "copy" THEN step.payloadRel
    ELSE IF step.type = "patchBlock" THEN step.contentRel
    ELSE step.inputRel

\* The staged path of a step: the trimmed field, or the base name of the
\* source when the field is blank, trimmed as addPayload trims it.
StagedPath(step) ==
    IF Trim(RelField(step)) # <<>> THEN Trim(RelField(step))
    ELSE Trim(ToBaseName(Trim(SourceField(step))))

Stages(step) == step.enabled /\ step.type \in PayloadKinds

\* Two enabled steps stage different sources under one path.
Collision(uiSteps) ==
    \E i, j \in 1..Len(uiSteps) :
        /\ i < j
        /\ Stages(uiSteps[i]) /\ Stages(uiSteps[j])
        /\ StagedPath(uiSteps[i]) = StagedPath(uiSteps[j])
        /\ Trim(SourceField(uiSteps[i])) # Trim(SourceField(uiSteps[j]))

\* The fields a step must have, each with the message for its absence.
RequiredFields(step) ==
    IF step.type = "copy"
    THEN << <<step.payloadSource, "A copy decree is missing a source file or folder.">>,
            <<step.dest, "A copy decree is missing a destination path.">> >>
    ELSE IF step.type = "patchBlock"
    THEN << <<step.file, "A patch decree is missing the target file.">>,
            <<step.startMarker, "A patch decree is missing a start marker.">>,
            <<step.endMarker, "A patch decree is missing an end marker.">>,
            <<step.contentSource, "A patch decree is missing a content file.">> >>
    ELSE IF step.type = "setJsonValue"
    THEN << <<step.file, "A JSON decree is missing the target file.">>,
            <<step.keyPath, "A JSON decree is missing the key path.">> >>
    ELSE IF step.type = "base64Embed"
    THEN << <<step.file, "A seal embed decree is missing the target file.">>,
            <<step.placeholder, "A seal embed decree is missing the placeholder.">>,
            <<step.inputSource, "A seal embed decree is missing the input file.">> >>
    ELSE << <<step.command, "A command decree is missing the command.">> >>

MissingFields(step) ==
    {k \in 1..Len(RequiredFields(step)) : Trim(RequiredFields(step)[k][1]) = <<>>}

InvalidNumber(step) ==
    step.type = "setJsonValue" /\ step.valueType = "number" /\ NumberIsNaN(step.valueRaw)

InvalidJson(step) ==
    step.type = "setJsonValue" /\ step.valueType = "json" /\ ~JsonParses(step.valueRaw)

\* The step has a source to stage.
Staging(step) == Stages(step) /\ MissingFields(step) = {}

\* Earlier steps that stage under the path of step i.
EarlierSamePath(uiSteps, i) ==
    {j \in 1..(i - 1) :
        /\ Staging(uiSteps[j])
        /\ Trim(StagedPath(uiSteps[j])) = Trim(StagedPath(uiSteps[i]))}

\* The path of step i is taken by another source: the first step that staged
\* under it holds it.
PathTaken(uiSteps, i) ==
    /\ EarlierSamePath(uiSteps, i) # {}
    /\ Trim(SourceField(uiSteps[Min(EarlierSamePath(uiSteps, i))]))
         # Trim(SourceField(uiSteps[i]))

\* The message of the check step i fails, or "" when it passes every check.
CheckMessage(uiSteps, i) ==
    LET step == uiSteps[i]
    IN  IF ~step.enabled THEN ""
        ELSE IF MissingFields(step) # {}
        THEN RequiredFields(step)[Min(MissingFields(step))][2]
        ELSE IF InvalidNumber(step) THEN "A JSON decree number is invalid."
        ELSE IF InvalidJson(step) THEN "A JSON decree is not valid JSON."
        ELSE IF ~Stages(step) THEN ""
        ELSE IF Trim(StagedPath(step)) = <<>> THEN "A payload path cannot be empty."
        ELSE IF PathTaken(uiSteps, i) THEN "A payload path is already claimed: "
        ELSE ""

FailingSteps(uiSteps) == {i \in 1..Len(uiSteps) : CheckMessage(uiSteps, i) # ""}

RECURSIVE CheckMessages(_, _)
\* The messages of the failing steps among the first n, in the order of the
\* steps.
CheckMessages(uiSteps, n) ==
    IF n = 0 THEN <<>>
    ELSE CheckMessages(uiSteps, n - 1)
         \o (IF CheckMessage(uiSteps, n) # "" THEN <<CheckMessage(uiSteps, n)>> ELSE <<>>)

\* Every message handleBuild can push.
KnownMessages ==
    UNION {{RequiredFields(CreateStep(type))[k][2] :
                k \in 1..Len(RequiredFields(CreateStep(type)))} : type \in StepTypes}
    \cup {"A JSON decree number is invalid.", "A JSON decree is not valid JSON.",
          "A payload path cannot be empty.", "A payload path is already claimed: "}

\* The messages a log line holds, in order.
MessagesIn(line) == SelectSeq(line, LAMBDA t : t \in KnownMessages)

\* A log line that reports the Error handleBuild threw.
ValidationFailure(line) ==
    Len(line) >= 3 /\ line[1] = "Forge failed: " /\ line[2] = "Error: "

\* The step from the click of the forge button.
Clicked ==
    bpc = "idle" /\ Len(logs') > Len(logs) /\ logs'[Len(logs) + 1] = SummoningLine

\* The step that invokes build_project.
BuildInvoked ==
    Len(calls') > Len(calls) /\ calls'[Len(calls')].cmd = "build_project"

\* The step that invokes any command.
CommandInvoked == calls' # calls

\* The target exists, is absolute and has no marker.
NoMarkerCase(target) == target.exists /\ target.isAbsolute /\ ~target.hasMarker

Declined(answers) == \E k \in 1..Len(answers) : ~answers[k].answer

\* C7: a click of the forge button on steps of which two enabled ones stage
\* different sources under the same payload-relative path ends handleBuild
\* with a validation error in the log and without any command invoked, so
\* that no payload set in which one source took the place of the other
\* reaches build_project.
C7_CollisionRejected ==
    [][(Clicked /\ Collision(steps)) =>
          /\ ~CommandInvoked
          /\ bpc' = "idle" /\ ~building'
          /\ breq' = NoRequest
          /\ ValidationFailure(logs'[Len(logs')])]_vars

\* C7: handleBuild has ended on two complete copy steps that collide; the log
\* names the path and no command was invoked.
C7_Witness ==
    /\ bpc = "idle"
    /\ Len(bsteps) = 2
    /\ Collision(bsteps)
    /\ \A i \in 1..2 : bsteps[i].type = "copy" /\ MissingFields(bsteps[i]) = {}
    /\ logs # <<>>
    /\ MessagesIn(logs[Len(logs)]) = <<"A payload path is already claimed: ">>
    /\ calls = <<>>

\* C8: for a target that exists, is absolute and has no marker, the step that
\* invokes build_project is taken with exactly two confirmations answered,
\* both accepted: 'No marker found' first, 'Delete existing folder?' second.
\* A step in which the operator declines one of them invokes nothing and
\* ends handleBuild, and handleBuild stays ended.
C8_TwoConfirmations ==
    /\ [][NoMarkerCase(btarget') =>
            /\ BuildInvoked =>
                 asked' = << Answered("No marker found", TRUE),
                             Answered("Delete existing folder?", TRUE) >>
            /\ (asked' # asked /\ Declined(asked')) =>
                 (~CommandInvoked /\ bpc' = "idle" /\ ~building')]_vars
    /\ [](NoMarkerCase(btarget) /\ Declined(asked) => bpc = "idle" /\ ~building)

\* C8: build_project runs for such a target, after both confirmations.
C8_Witness ==
    /\ NoMarkerCase(btarget)
    /\ bpc = "build"
    /\ Len(asked) = 2
    /\ calls[Len(calls)].cmd = "build_project"

\* C10: a click of the forge button on steps of which at least one enabled
\* step fails a check invokes no command, keeps no request, and appends
\* after the opening line exactly one line, which reports the validation
\* failure with the message of every failing step, one for each, in the
\* order of the steps.
C10_AllOrNothing ==
    [][(Clicked /\ FailingSteps(steps) # {}) =>
          /\ ~CommandInvoked
          /\ bpc' = "idle" /\ ~building'
          /\ breq' = NoRequest
          /\ Len(logs') = Len(logs) + 2
          /\ logs'[Len(logs) + 1] = SummoningLine
          /\ ValidationFailure(logs'[Len(logs')])
          /\ MessagesIn(logs'[Len(logs')]) = CheckMessages(steps, Len(steps))]_vars

\* C10: handleBuild has ended on two failing steps; one line of the log
\* reports both and no command was invoked.
C10_Witness ==
    /\ bpc = "idle"
    /\ Cardinality(FailingSteps(bsteps)) = 2
    /\ logs # <<>>
    /\ ValidationFailure(logs[Len(logs)])
    /\ Len(MessagesIn(logs[Len(logs)])) = 2
    /\ calls = <<>>

\* Steps that pass every check go to the backend.
PassingStepsInspected ==
    [][(Clicked /\ FailingSteps(steps) = {}) => bpc' = "inspect"]_vars

\* The step invokes the command cmd.
Invoked(cmd) ==
    Len(calls') > Len(calls) /\ calls'[Len(calls')].cmd = cmd

\* An enabled setJsonValue step of kind number whose raw value is no number.
NonNumeric(step) ==
    /\ step.enabled
    /\ step.type = "setJsonValue"
    /\ step.valueType = "number"
    /\ NumberIsNaN(step.valueRaw)

HasNonNumeric(uiSteps) == \E i \in 1..Len(uiSteps) : NonNumeric(uiSteps[i])

\* The manifest holds a setJsonValue step whose value is the raw text of a
\* number that did not parse.
CarriesNonNumeric(man, uiSteps) ==
    \E i \in 1..Len(uiSteps), k \in 1..Len(man.installSteps) :
        /\ NonNumeric(uiSteps[i])
        /\ man.installSteps[k].type = "setJsonValue"
        /\ man.installSteps[k].value = [t |-> "string", v |-> uiSteps[i].valueRaw]

\* C11: no step that invokes a command that writes files, build_project of
\* the forge or write_text_file of the export, passes a manifest made from
\* steps that hold an enabled setJsonValue number step with a non-numeric
\* raw value.
C11_AsStated ==
    [][/\ Invoked("build_project") => ~HasNonNumeric(bsteps)
       /\ Invoked("write_text_file") =>
             ~CarriesNonNumeric(calls'[Len(calls')].request.contents, xsteps)]_vars

\* The forge half of C11: handleBuild invokes no command at all on steps
\* that hold such a step.
ForgeRejectsNonNumeric ==
    [][(Clicked /\ HasNonNumeric(steps)) => (~CommandInvoked /\ bpc' = "idle")]_vars

\* The enabled steps, in the order of the form.
EnabledSteps(uiSteps) == SelectSeq(uiSteps, LAMBDA step : step.enabled)

\* The manifest step is the step of the form, by its type and the fields
\* that name what it acts on.
Corresponds(mstep, step) ==
    /\ mstep.type = step.type
    /\ IF step.type = "copy" THEN mstep.dest = Trim(step.dest)
       ELSE IF step.type = "runCommand" THEN mstep.command = Trim(step.command)
       ELSE mstep.file = Trim(step.file)
    /\ step.type = "patchBlock" =>
          mstep.startMarker = Trim(step.startMarker) /\ mstep.endMarker = Trim(step.endMarker)
    /\ step.type = "setJsonValue" => mstep.keyPath = Trim(step.keyPath)
    /\ step.type = "base64Embed" => mstep.placeholder = Trim(step.placeholder)

\* The manifest holds one step for every enabled step, in the same order.
OnePerEnabledStep(man, uiSteps) ==
    /\ Len(man.installSteps) = Len(EnabledSteps(uiSteps))
    /\ \A k \in 1..Len(man.installSteps) :
          Corresponds(man.installSteps[k], EnabledSteps(uiSteps)[k])

\* Every payload entry of the request stages the source of an enabled step.
PayloadFromEnabled(req, uiSteps) ==
    \A k \in 1..Len(req.payloadFiles) :
        \E i \in 1..Len(uiSteps) :
            /\ Stages(uiSteps[i])
            /\ req.payloadFiles[k] = <<Trim(SourceField(uiSteps[i])), StagedPath(uiSteps[i])>>

\* C12: a click of the forge button on steps whose enabled ones pass every
\* check sends a request whose manifest holds exactly the enabled steps,
\* one for each, in the order of the form, and whose payload entries all
\* come from enabled steps; when an enabled step fails, the messages of the
\* log are those of the enabled steps alone.  build_project is invoked with
\* such a manifest and such payload entries.
C12_EnabledStepsOnly ==
    [][/\ Clicked =>
            IF FailingSteps(EnabledSteps(steps)) = {}
            THEN /\ bpc' = "inspect"
                 /\ calls'[Len(calls')].request = breq'
                 /\ OnePerEnabledStep(breq'.manifest, steps)
                 /\ PayloadFromEnabled(breq', steps)
            ELSE MessagesIn(logs'[Len(logs')])
                   = CheckMessages(EnabledSteps(steps), Len(EnabledSteps(steps)))
       /\ Invoked("build_project") =>
            /\ OnePerEnabledStep(calls'[Len(calls')].request.manifest, bsteps)
            /\ PayloadFromEnabled(calls'[Len(calls')].request, bsteps)]_vars

\* C12: build_project runs for a form with an enabled copy step and a
\* disabled one that would claim the same payload path for another source;
\* the manifest holds the enabled step alone and one payload entry.
C12_Witness ==
    /\ bpc = "build"
    /\ Len(bsteps) = 2
    /\ Len(EnabledSteps(bsteps)) = 1
    /\ \A i \in 1..2 : bsteps[i].type = "copy"
    /\ Trim(SourceField(bsteps[1])) # Trim(SourceField(bsteps[2]))
    /\ StagedPath(bsteps[1]) = StagedPath(bsteps[2])
    /\ calls[Len(calls)].cmd = "build_project"
    /\ Len(calls[Len(calls)].request.manifest.installSteps) = 1
    /\ Len(calls[Len(calls)].request.payloadFiles) = 1

\* What a step of the form says, without the enabled toggle and without
\* the white space around its fields: its type, the paths it names, the
\* value with its kind, the argument vector.
Meaning(step) ==
    IF step.type = "copy"
    THEN [type |-> "copy", src |-> StagedPath(step), dest |-> Trim(step.dest)]
    ELSE IF step.type = "patchBlock"
    THEN [type |-> "patchBlock", file |-> Trim(step.file),
          startMarker |-> Trim(step.startMarker), endMarker |-> Trim(step.endMarker),
          contentFile |-> StagedPath(step),
          replacements |-> ReplacementsObject(step.replacements)]
    ELSE IF step.type = "setJsonValue"
    THEN [type |-> "setJsonValue", file |-> Trim(step.file),
          keyPath |-> Trim(step.keyPath), kind |-> step.valueType,
          value |-> IF step.valueType = "number" /\ ~NumberIsNaN(step.valueRaw)
                    THEN NumberValue(step.valueRaw)
                    ELSE IF step.valueType = "json" /\ JsonParses(step.valueRaw)
                    THEN JsonValue(step.valueRaw)
                    ELSE IF step.valueType = "boolean"
                    THEN (IF step.valueBool THEN <<"true">> ELSE <<"false">>)
                    ELSE step.valueRaw]
    ELSE IF step.type = "base64Embed"
    THEN [type |-> "base64Embed", file |-> Trim(step.file),
          placeholder |-> Trim(step.placeholder), inputFile |-> StagedPath(step)]
    ELSE [type |-> "runCommand", command |-> Trim(step.command),
          args |-> ParseArgs(step.args)]

\* Two step lists are equivalent: as many steps, and step for step the same
\* meaning.
Equivalent(a, b) ==
    /\ Len(a) = Len(b)
    /\ \A i \in 1..Len(a) : Meaning(a[i]) = Meaning(b[i])

\* The step in which handleImportManifest applies the manifest it read.
ImportApplied ==
    /\ xpc = "read"
    /\ Len(logs') > Len(logs)
    /\ logs'[Len(logs')] = ImportedLine(ManifestPath)

\* C13: the steps an import sets from the file that an export wrote are
\* equivalent to the steps the export was made from: as many, in the same
\* order, of the same types and field values, whatever their toggles.
C13_AsStated ==
    [][ImportApplied => Equivalent(steps', exported.from)]_vars

\* The round trip of a form whose steps are all enabled and pass every
\* check of handleBuild gives an equivalent form.
RoundTripOfPassingSteps ==
    [][(/\ ImportApplied
        /\ \A i \in 1..Len(exported.from) : exported.from[i].enabled
        /\ FailingSteps(exported.from) = {})
          => Equivalent(steps', exported.from)]_vars

\* An import has dropped the disabled step of the form that was exported.
ImportDroppedDisabled ==
    /\ exported.written
    /\ xpc = "idle"
    /\ logs # <<>>
    /\ logs[Len(logs)] = ImportedLine(ManifestPath)
    /\ Len(exported.from) = 2
    /\ Len(steps) = 1
    /\ ~exported.from[2].enabled

\* A confirmation is put and waits for its answer.
ConfirmationAwaits == bpc \in {"confirmNoMarker", "confirmDelete", "confirmOverwrite"}

\* An existing target that takes the ordinary overwrite: it has the marker,
\* or it is relative.
OrdinaryOverwrite(target) ==
    target.exists /\ (target.hasMarker \/ ~target.isAbsolute)

AllAccepted(answers) == \A k \in 1..Len(answers) : answers[k].answer

\* C18: the target that inspect_build_target answered decides the
\* confirmations.  For a target that does not exist none is put and
\* build_project is invoked at once with forceOverwrite = false.  For one
\* that exists one is put; when it has the marker or is relative that one is
\* the only one, whether it is accepted (build_project follows, with
\* forceOverwrite = true) or declined (handleBuild ends).  build_project
\* carries forceOverwrite = true exactly when the target exists, and then
\* every confirmation put was accepted.
C18_ConfirmationsByTarget ==
    [][/\ (bpc = "inspect" /\ btarget' # btarget) =>
            IF btarget'.exists
            THEN ConfirmationAwaits' /\ asked' = <<>> /\ ~CommandInvoked
            ELSE /\ Invoked("build_project")
                 /\ ~calls'[Len(calls')].request.forceOverwrite
                 /\ asked' = <<>>
       /\ Len(asked') > Len(asked) =>
            /\ btarget.exists
            /\ OrdinaryOverwrite(btarget) =>
                  /\ Len(asked') = 1
                  /\ ~ConfirmationAwaits'
                  /\ IF asked'[1].answer
                     THEN Invoked("build_project")
                     ELSE ~CommandInvoked /\ bpc' = "idle"
       /\ Invoked("build_project") =>
            /\ calls'[Len(calls')].request.forceOverwrite = btarget'.exists
            /\ AllAccepted(asked')
            /\ Len(asked') = IF ~btarget'.exists THEN 0
                             ELSE IF OrdinaryOverwrite(btarget') THEN 1 ELSE 2]_vars

\* C18: build_project runs with forceOverwrite = true for a relative target
\* that exists without the marker, after the one confirmation.
C18_Witness ==
    /\ bpc = "build"
    /\ btarget.exists /\ ~btarget.isAbsolute /\ ~btarget.hasMarker
    /\ asked = <<Answered("Overwrite existing build?", TRUE)>>
    /\ calls[Len(calls)].cmd = "build_project"
    /\ calls[Len(calls)].request.forceOverwrite

\* C19: no step invokes build_project with forceOverwrite = true for a
\* target that exists, is absolute and has no marker.
C19_AsStated ==
    [][(Invoked("build_project") /\ calls'[Len(calls')].request.forceOverwrite)
          => ~NoMarkerCase(btarget')]_vars

\* build_project runs with forceOverwrite = true for such a target.
ForcedWithoutMarker ==
    /\ bpc = "build"
    /\ NoMarkerCase(btarget)
    /\ calls[Len(calls)].cmd = "build_project"
    /\ calls[Len(calls)].request.forceOverwrite

\* The export half of C11 as the code has it: the manifest file was written
\* with the raw text in the place of the number.
ExportWroteNonNumeric ==
    /\ exported.written
    /\ HasNonNumeric(exported.from)
    /\ CarriesNonNumeric(exported.contents, exported.from)

(***************************************************************************)
(* Key-path resolver: what the claims speak of.                            *)
(***************************************************************************)
RECURSIVE EscapesAt(_, _)
\* Position i holds a backslash that escapes what follows: a backslash that
\* is not itself escaped.
EscapesAt(s, i) ==
    /\ s[i] = "\\"
    /\ i = 1 \/ ~EscapesAt(s, i - 1)

Escaped(s, i) == i > 1 /\ EscapesAt(s, i - 1)

UnescapedDots(s) == {i \in 1..Len(s) : s[i] = "." /\ ~Escaped(s, i)}

EscapedDots(s) == {i \in 1..Len(s) : s[i] = "." /\ Escaped(s, i)}

\* The key path ends in an escape with nothing after it.
UnterminatedEscape(s) == s # <<>> /\ EscapesAt(s, Len(s))

RECURSIVE LiteralDots(_)
\* How many dots the segments hold.
LiteralDots(segs) ==
    IF segs = <<>> THEN 0
    ELSE Cardinality(Positions(Head(segs), ".")) + LiteralDots(Tail(segs))

\* C14: the resolver fails with MalformedKeyPath on a key path that ends in
\* an unterminated escape; when it returns segments there is one more
\* segment than the key path has unescaped dots, and the segments hold one
\* literal dot for every escaped dot, so that a key path whose only dots are
\* escaped resolves to exactly one segment.
C14_SplitsOnUnescapedDots ==
    kresult # NotResolved =>
        /\ UnterminatedEscape(kpath) <=> kresult = MalformedKeyPath
        /\ kresult.ok =>
              /\ Len(kresult.segments) = Cardinality(UnescapedDots(kpath)) + 1
              /\ LiteralDots(kresult.segments) = Cardinality(EscapedDots(kpath))
              /\ UnescapedDots(kpath) = {} => Len(kresult.segments) = 1

\* C14: a key path with one escaped dot between two characters, as
\* workbench\.colorTheme, has resolved to the one segment with the literal
\* dot.
C14_Witness ==
    /\ kpath = <<"a", "\\", ".", "a">>
    /\ kresult = Segments(<< <<"a", ".", "a">> >>)

(***************************************************************************)
(* Installer and engine: what the claims speak of.                         *)
(***************************************************************************)
\* The step invokes run_install for a manifest with command steps.
CommandRunInvoked ==
    /\ Len(icalls') > Len(icalls)
    /\ icalls'[Len(icalls')].cmd = "run_install"
    /\ HasCommandSteps(icalls'[Len(icalls')].arg)

CancelledLine == LogLine(<<"Installation cancelled by user.">>)

RECURSIVE Effects(_, _, _)
\* The files after the first n steps succeeded.
Effects(files, stepList, n) ==
    IF n = 0 THEN files
    ELSE Performed(Effects(files, stepList, n - 1), stepList[n])

\* This session's run_install was rejected.
RunRejected ==
    \E i \in 1..Len(icalls) : icalls[i].cmd = "run_install" /\ icalls[i].state = "rejected"

\* C1: in a run whose step k is the first to fail, the steps attempted are
\* exactly 1..k, the files are those the steps before k left (nothing is
\* rolled back), the run is halted, and once run_install has rejected the
\* Installer status is 'error'.
C1_HaltOnFirstFailure ==
    (run.failed # 0 /\ rest = NoRestore) =>
        /\ run.trace = [n \in 1..run.failed |-> n]
        /\ fs = Effects(run.pre, run.steps, run.failed - 1)
        /\ run.phase \in {"failed", "halted"}
        /\ run.k = run.failed
        /\ RunRejected => (status = "error" /\ run.phase = "halted")
        /\ (run.phase = "failed") => status = "installing"

\* C1: a run of three steps halted at its second step; the first step's
\* effect is in place and the status is 'error'.
C1_Witness ==
    /\ run.failed = 2
    /\ Len(run.steps) = 3
    /\ run.phase = "halted"
    /\ fs # run.pre
    /\ status = "error"

\* The paths the run has snapshotted.
SnapshotPaths == {run.snaps[n].path : n \in 1..Len(run.snaps)}

\* The archived copy of a path in the backup of the run, Missing if none.
ArchivedCopy(p) ==
    IF RunBackups(backups, run) = {} THEN Missing
    ELSE (CHOOSE b \in RunBackups(backups, run) : TRUE).entries[p]

\* C2: in a run no path has two snapshots, every snapshot of a path is taken
\* before the run writes the path and captures the state the path had before
\* the run, every path the run has written has its snapshot, and for every
\* path that existed before the run the archived copy is its pre-run
\* content.
C2_SnapshotOncePreRun ==
    /\ \A m, n \in 1..Len(run.snaps) : run.snaps[m].path = run.snaps[n].path => m = n
    /\ \A n \in 1..Len(run.snaps) :
          /\ ~run.snaps[n].late
          /\ run.snaps[n].copy = run.pre[run.snaps[n].path]
    /\ run.touched \subseteq SnapshotPaths
    /\ Cardinality(RunBackups(backups, run)) <= 1
    /\ \A p \in Paths :
          ArchivedCopy(p) = IF p \in SnapshotPaths THEN run.pre[p] ELSE Missing

\* C2: a run wrote a path that existed before it twice; the archive holds
\* the pre-run content.
C2_Witness ==
    /\ run.phase = "done"
    /\ Len(run.steps) = 3
    /\ run.steps[2].type = "patchBlock"
    /\ run.pre["p1"] # Missing
    /\ ArchivedCopy("p1") = run.pre["p1"]
    /\ fs["p1"] # run.pre["p1"]

\* C3: after a restore for the application of the run it directly follows,
\* every path the run archived holds its pre-run content.
C3_RestoreRoundTrip ==
    (rest.result = "ok" /\ rest.follows) =>
        \A p \in Paths : ArchivedCopy(p) # Missing => fs[p] = run.pre[p]

\* C3: a halted run had changed an archived file and the restore brought the
\* pre-run content back.
C3_Witness ==
    /\ rest.result = "ok"
    /\ rest.follows
    /\ run.phase = "halted"
    /\ ArchivedCopy("p1") # Missing
    /\ rest.before["p1"] # run.pre["p1"]
    /\ fs["p1"] = run.pre["p1"]

\* The greatest timestamp among the backups of the application.
GreatestTimestamp(app) == Max({b.ts : b \in AppBackups(backups, app)})

\* C4: a restore that succeeded replayed, when the application has backups
\* of its own, the one with the greatest timestamp, and otherwise one of the
\* legacy root; a restore fails with NoBackupFound exactly when neither
\* place has a backup, and then no file has changed and the status is
\* 'error'.
C4_LatestElseLegacy ==
    /\ (rest.result = "ok" /\ AppBackups(backups, rest.app) # {}) =>
          /\ rest.root = "app"
          /\ rest.ts = GreatestTimestamp(rest.app)
          /\ \E b \in AppBackups(backups, rest.app) :
                b.ts = rest.ts /\ fs = Replay(rest.before, b.entries)
    /\ (rest.result = "ok" /\ AppBackups(backups, rest.app) = {}) =>
          /\ rest.root = "legacy"
          /\ \E b \in LegacyBackups(backups) : fs = Replay(rest.before, b.entries)
    /\ (rest.result = "NoBackupFound") =>
          /\ AppBackups(backups, rest.app) = {}
          /\ LegacyBackups(backups) = {}
          /\ fs = rest.before
    /\ (rest.result = "ok") =>
          AppBackups(backups, rest.app) \cup LegacyBackups(backups) # {}
    /\ \A i \in 1..Len(icalls) :
          (icalls[i].cmd = "restore_backup" /\ icalls[i].state = "rejected") =>
              (rest.result = "NoBackupFound" /\ status = "error")

\* C4: the application has two backups of its own and the restore replayed
\* the later one, which changed a file.
C4_Witness ==
    /\ rest.result = "ok"
    /\ Cardinality(AppBackups(backups, rest.app)) = 2
    /\ rest.ts > 0
    /\ fs # rest.before

\* The restore fell back to the legacy root.
LegacyRestored == rest.result = "ok" /\ rest.root = "legacy" /\ fs # rest.before

\* The restore found nothing to replay.
NothingToRestore == rest.result = "NoBackupFound" /\ status = "error"

(***************************************************************************)
(* Marker Patch Engine: what the claims speak of.                          *)
(***************************************************************************)
\* The manifest of the run_install that is under way.
RunManifest == icalls[CHOOSE i \in Pending("run_install") : TRUE].arg

\* The step in which the executor performs a patch.
PatchPerformed ==
    /\ run.phase = "running"
    /\ run.k <= Len(run.steps)
    /\ run.steps[run.k].type = "patchBlock"
    /\ run'.k = run.k + 1

\* The text with the content in the place of its first span, or after its
\* end between line breaks when it has no span.
WithContent(text, content) ==
    IF HasSpan(text) THEN FirstSpanReplaced(text, content)
    ELSE text \o Lf \o content \o Lf

WithoutMarkers(content) ==
    SelectSeq(content, LAMBDA t : t # StartMarker /\ t # EndMarker)

\* C17: a patch performed in a run of a manifest with advancedMode writes
\* the content without its markers, so that the file gains no
\* marker-delimited block and loses the one that was replaced; a patch
\* performed with advancedMode off writes the content as supplied, and a
\* content wrapped in the marker pair leaves a span that the next patch
\* replaces.
C17_OneShotInAdvancedMode ==
    [][PatchPerformed =>
         LET given == RunManifest.installSteps[run.k]
             before == fs[given.file].text
             after == fs'[given.file].text
         IN  IF RunManifest.advancedMode
             THEN /\ after = WithContent(before, WithoutMarkers(given.content))
                  /\ CountBlocks(after)
                       = CountBlocks(before) - (IF HasSpan(before) THEN 1 ELSE 0)
             ELSE /\ after = WithContent(before, given.content)
                  /\ Wrapped(given.content) =>
                        /\ HasSpan(after)
                        /\ Holds(after, given.content)
                        /\ WithContent(after, given.content) = after]_vars

\* C17: a run with advancedMode has patched twice a file that held one
\* block: the first patch replaced the block by the bare content, the
\* second found no marker and appended.
C17_Witness ==
    /\ run.phase = "done"
    /\ Pending("run_install") = {}
    /\ \E i \in 1..Len(icalls) :
          icalls[i].cmd = "run_install" /\ icalls[i].arg.advancedMode
    /\ run.pre["p1"] = File(<<StartMarker, "a", EndMarker>>)
    /\ fs["p1"] = File(<<"c">> \o Lf \o <<"c">> \o Lf)
(***************************************************************************)
(* Installer: failures.                                                    *)
(***************************************************************************)
\* The step in which invocation i rejects.
Rejects(i) ==
    /\ i \in 1..Len(icalls)
    /\ icalls[i].state = "pending"
    /\ Len(icalls') = Len(icalls)
    /\ icalls'[i].state = "rejected"

\* The step in which invocation i resolves.
Resolves(i) ==
    /\ i \in 1..Len(icalls)
    /\ icalls[i].state = "pending"
    /\ Len(icalls') = Len(icalls)
    /\ icalls'[i].state = "resolved"

\* The step in which get_manifest rejects: the load ends without a manifest.
LoadRejected ==
    /\ status = "loading"
    /\ sessions' = sessions
    /\ status' # "loading"
    /\ manifest' = NoManifest

\* The text holds the error the backend rejected with.
HoldsError(text) == \E k \in 1..Len(text) : text[k] = "error"

\* C20: the step in which get_manifest, run_install or restore_backup
\* rejects sets the status to 'error', sets errorMsg to a message that holds
\* the error and appends one log line that holds the error; the status
\* becomes 'complete' only in a step in which an invocation resolves.
C20_NoSilentFailure ==
    [][/\ (LoadRejected \/ \E i \in 1..Len(icalls) : Rejects(i)) =>
            /\ status' = "error"
            /\ HoldsError(errorMsg')
            /\ Len(ilogs') = Len(ilogs) + 1
            /\ HoldsError(ilogs'[Len(ilogs')])
       /\ (status' = "complete" /\ status # "complete") =>
            \E i \in 1..Len(icalls) : Resolves(i)
       /\ \A i \in 1..Len(icalls) :
            (icalls[i].cmd = "restore_backup" /\ Rejects(i)) =>
                errorMsg' = <<"Restoration failed: ", "error">>]_vars

\* C20: restore_backup has rejected; the status is 'error', the banner and
\* the last log line hold the error.
C20_Witness ==
    /\ status = "error"
    /\ icalls # <<>>
    /\ icalls[Len(icalls)].cmd = "restore_backup"
    /\ icalls[Len(icalls)].state = "rejected"
    /\ errorMsg = <<"Restoration failed: ", "error">>
    /\ ilogs[Len(ilogs)] = LogLine(<<"Restore Error: ", "error">>)

(***************************************************************************)
(* SpecLogs: the application renders one of its two faces, the Studio or   *)
(* the Installer, and the face it renders keeps the log panel.             *)
(***************************************************************************)
\* modeToRender === 'installer': the Installer is mounted.
InstallerRendered == sessions > 0

InitLogs == InitBuild \/ InitInstaller

NextLogs ==
    \/ ~InstallerRendered /\ NextBuild
    \/ InstallerRendered /\ NextInstaller

SpecLogs == InitLogs /\ [][NextLogs]_vars

(***************************************************************************)
(* Progress log                                                            *)
(***************************************************************************)
\* The lines of now, kept as they are at the head of the lines of next.
KeptInFront(now, next) ==
    /\ Len(next) >= Len(now)
    /\ SubSeq(next, 1, Len(now)) = now

InFlight == Pending("run_install") \cup Pending("restore_backup")

\* C22: from the Installer at most one backend run (run_install or
\* restore_backup) is in flight at any time, for every interleaving of
\* clicks, dialog answers and backend completions, clicks during the
\* pending 'Run commands?' confirmation included.
C22_AsStated == Cardinality(InFlight) <= 1

\* Without a confirmation ever put, the status alone keeps the runs apart.
OneRunWithoutConfirmation ==
    (\A i \in 1..Len(icalls) : ~icalls[i].consent) /\ dialogs = 0
        => Cardinality(InFlight) <= 1

\* A run_install invoked after its confirmation, while the restore_backup
\* of a click that came during the wait has not returned.
InstallJoinsRestore ==
    /\ Pending("restore_backup") # {}
    /\ \E i \in Pending("run_install") :
           /\ icalls[i].consent
           /\ \E j \in Pending("restore_backup") : j < i

\* The moves of the status the handlers are written for.
StatusMoves ==
    { <<"loading", "ready">>, <<"loading", "error">>,
      <<"ready", "installing">>,
      <<"installing", "complete">>, <<"installing", "error">> }

\* This step invokes a backend run.
RunStarted == Len(icalls') > Len(icalls)

\* C23: the status moves only along loading->ready, loading->error,
\* ready->installing, installing->complete and installing->error, and a
\* run is started only while the status is 'ready'; so none is started
\* after an install completed or failed.
C23_AsStated ==
    [][ /\ status' # status => <<status, status'>> \in StatusMoves
        /\ RunStarted => status = "ready" ]_vars

\* While no confirmation waits and no run came out of one, the status
\* moves as the handlers are written and a run starts from 'ready' only.
StatusMovesWithoutConfirmation ==
    [][ (dialogs = 0 /\ \A i \in 1..Len(icalls) : ~icalls[i].consent) =>
          /\ status' # status => <<status, status'>> \in StatusMoves
          /\ RunStarted => status = "ready" ]_vars

\* An install is running although an earlier run of the session completed.
InstallAfterComplete ==
    /\ status = "installing"
    /\ Pending("run_install") # {}
    /\ \E j \in 1..Len(icalls) : icalls[j].state = "resolved"

\* The status never returns to 'ready'.
NeverBackToReady ==
    [][ status \notin {"loading", "ready"} => status' # "ready" ]_vars

(***************************************************************************)
(* SpecForge: the step editor and handleBuild, where every dialog and      *)
(* every backend call of a running handleBuild returns.                    *)
(***************************************************************************)
\* What a running handleBuild waits for comes back: a command resolves or
\* rejects, a confirmation is answered.
HandlerResumes ==
    \/ \E target \in Targets : InspectResolves(target)
    \/ CommandRejects
    \/ \E warn \in BOOLEAN : AnswerNoMarker(warn)
    \/ \E confirmDelete \in BOOLEAN : AnswerDelete(confirmDelete)
    \/ \E confirmDelete \in BOOLEAN : AnswerOverwrite(confirmDelete)
    \/ BuildResolves

NextForge ==
    \/ \E type \in StepTypes : AddStep(type)
    \/ \E i \in 1..MaxSteps, to \in StepPool : UpdateStep(i, to)
    \/ \E i \in 1..MaxSteps : RemoveStep(i)
    \/ ClickForge
    \/ HandlerResumes
    \/ LogEvent

SpecForge == InitBuild /\ [][NextForge]_vars /\ WF_vars(HandlerResumes)

(***************************************************************************)
(* The course of one handleBuild                                           *)
(***************************************************************************)
\* The positions of a handleBuild that waits for a confirmation.
Confirming == {"confirmNoMarker", "confirmDelete", "confirmOverwrite"}

\* Each command is invoked at most once in an invocation, and in order:
\* inspect_build_target by the click, build_project by a later step that
\* holds the answer of inspect_build_target, and nothing after it.
OncePerInvocation ==
    /\ Invoked("inspect_build_target") => bpc = "idle" /\ bpc' = "inspect"
    /\ Invoked("build_project") =>
           /\ bpc \in Confirming \cup {"inspect"}
           /\ btarget' # NoTarget
           /\ bpc' = "build"
    /\ bpc = "build" => bpc' \in {"build", "idle"}
    /\ bpc \in Confirming => bpc' # "inspect"

\* C24: every handleBuild ends with building = false on each exit path,
\* provided every dialog and backend call returns; within one invocation
\* inspect_build_target and build_project are each invoked at most once,
\* and build_project never before inspect_build_target has returned.
C24_BuildEnds ==
    /\ [][OncePerInvocation]_vars
    /\ (bpc # "idle") ~> (bpc = "idle" /\ ~building)
    /\ [](bpc = "idle" => ~building)

\* A handleBuild that went through both commands has ended.
C24_Witness ==
    /\ bpc = "idle"
    /\ ~building
    /\ Len(calls) = 2
    /\ calls[1].cmd = "inspect_build_target"
    /\ calls[2].cmd = "build_project"
    /\ Len(logs) >= 2
    /\ logs[Len(logs)] = ForgedLine(btarget.path)

(***************************************************************************)
(* SpecAsked: handleBuild with a form that stays open to edits while a     *)
(* confirmation of the handler waits for its answer.                       *)
(***************************************************************************)
\* The names the project name field takes.
ProjectNames == {projectName, "Renamed"}

\* setProjectName while a confirmation waits.
RenameAsked(name) ==
    /\ bpc \in Confirming
    /\ name # pname
    /\ pname' = name
    /\ UNCHANGED <<buildVars, exportVars, presetVars>>
    /\ UNCHANGED <<patchVars, installerVars, engineVars, keyVars>>

\* addStep while a confirmation waits; the type selector is at the value
\* it starts with.
newStepType == "copy"

AddStepAsked ==
    /\ bpc \in Confirming
    /\ Len(steps) < MaxSteps
    /\ steps' = Append(steps, CreateStep(newStepType))
    /\ UNCHANGED <<building, logs, bpc, bsteps, breq, btarget, asked, calls>>
    /\ UNCHANGED notBuildVars

\* removeStep while a confirmation waits.
RemoveStepAsked(i) ==
    /\ bpc \in Confirming
    /\ i \in 1..Len(steps)
    /\ steps' = SubSeq(steps, 1, i - 1) \o SubSeq(steps, i + 1, Len(steps))
    /\ UNCHANGED <<building, logs, bpc, bsteps, breq, btarget, asked, calls>>
    /\ UNCHANGED notBuildVars

\* A source whose base name starts with a blank.
YBlankA == <<"y", "/", " ", "a">>

\* The forms handleBuild is started on: steps each of which passes every
\* check on its own; some claim the same payload path.
FilledForms ==
    SeqsUpTo({ CopyStep(TRUE, XA, <<>>, Dest),
               PatchBlockStep(TRUE, TargetFile, <<"S">>, <<"E">>, YA, <<>>, <<>>),
               CopyStep(TRUE, YBlankA, <<>>, Dest),
               RunCommandStep(TRUE, <<"c">>, <<"a", ",", " ", ",", "b">>) },
             MaxSteps)

\* The Dashboard with the form filled in and nothing started.
InitAsked ==
    /\ steps \in FilledForms
    /\ PresetIdle
    /\ pname = projectName
    /\ xpc = "idle"
    /\ xsteps = <<>>
    /\ exported = NoExport
    /\ building = FALSE
    /\ logs = <<>>
    /\ bpc = "idle"
    /\ bsteps = <<>>
    /\ breq = NoRequest
    /\ btarget = NoTarget
    /\ asked = <<>>
    /\ calls = <<>>
    /\ PatchIdle
    /\ InstallerIdle
    /\ EngineIdle
    /\ KeyIdle

NextAsked ==
    \/ ClickForge
    \/ HandlerResumes
    \/ LogEvent
    \/ \E name \in ProjectNames : RenameAsked(name)
    \/ AddStepAsked
    \/ \E i \in 1..MaxSteps : RemoveStepAsked(i)

SpecAsked == InitAsked /\ [][NextAsked]_vars

(***************************************************************************)
(* The request of a build                                                  *)
(***************************************************************************)
\* The request of the last inspect_build_target invoked so far.
LastInspected(cs) ==
    cs[Max({k \in 1..Len(cs) : cs[k].cmd = "inspect_build_target"})].request

\* The form differs from what the running handleBuild was started with.
FormEdited == steps # bsteps \/ pname # breq.projectName

\* C25: the project name, manifest and payloadFiles handleBuild passes to
\* build_project are exactly the ones it passed to inspect_build_target in
\* the same invocation, also when the form is edited while a confirmation
\* waits.
C25_BuildsWhatWasInspected ==
    [][ Invoked("build_project") =>
          LET req == calls'[Len(calls')].request
              inspected == LastInspected(calls)
          IN  /\ req.projectName = inspected.projectName
              /\ req.manifest = inspected.manifest
              /\ req.payloadFiles = inspected.payloadFiles ]_vars

\* build_project is invoked after an accepted confirmation during which
\* the steps and the project name were edited.
C25_Witness ==
    /\ bpc = "build"
    /\ asked # <<>>
    /\ steps # bsteps
    /\ pname # breq.projectName
    /\ calls[Len(calls)].cmd = "build_project"

(***************************************************************************)
(* The payload set of a request                                            *)
(***************************************************************************)
\* The payload-relative reference a manifest step carries.
Reference(mstep) ==
    IF mstep.type = "copy" THEN mstep.src
    ELSE IF mstep.type = "patchBlock" THEN mstep.contentFile
    ELSE mstep.inputFile

\* The payloadFiles entries whose relative destination is rel.
EntriesAt(files, rel) == {f \in 1..Len(files) : files[f][2] = rel}

\* The payload set agrees with the manifest, the references read through
\* the operator read: each reference is the destination of exactly one
\* entry, which holds the source of the referencing step; every entry is
\* referenced; no destination occurs twice.
PayloadConsistent(req, uiSteps, read(_)) ==
    LET msteps == req.manifest.installSteps
        files == req.payloadFiles
        from == EnabledSteps(uiSteps)
        refs == {k \in 1..Len(msteps) : msteps[k].type \in PayloadKinds}
    IN  /\ Len(msteps) = Len(from)
        /\ \A k \in refs :
              /\ Cardinality(EntriesAt(files, read(Reference(msteps[k])))) = 1
              /\ \A f \in EntriesAt(files, read(Reference(msteps[k]))) :
                    files[f][1] = Trim(SourceField(from[k]))
        /\ \A f \in 1..Len(files) :
              \E k \in refs : read(Reference(msteps[k])) = files[f][2]
        /\ \A f, g \in 1..Len(files) : f # g => files[f][2] # files[g][2]

AsWritten(rel) == rel

\* The step of a handleBuild that passed validation.
PassedValidation == Clicked /\ bpc' = "inspect"

\* C26: whenever handleBuild passes validation, every payload-relative
\* reference of the manifest is the relative destination of exactly one
\* payloadFiles entry, paired with the source of the step that references
\* it; payloadFiles has no unreferenced entry and no destination twice.
C26_AsStated ==
    [][PassedValidation => PayloadConsistent(breq', steps, AsWritten)]_vars

\* The same with each reference trimmed: the payload set is consistent up
\* to the blanks around a reference taken from the base name of a source.
ConsistentUpToTrim ==
    [][PassedValidation => PayloadConsistent(breq', steps, Trim)]_vars

\* A request went to the backend whose manifest refers to a payload path
\* that no payloadFiles entry has as its destination.
ReferenceNotStaged ==
    /\ bpc = "inspect"
    /\ \E k \in 1..Len(breq.manifest.installSteps) :
          /\ breq.manifest.installSteps[k].type \in PayloadKinds
          /\ EntriesAt(breq.payloadFiles, Reference(breq.manifest.installSteps[k])) = {}

(***************************************************************************)
(* Studio: the validation summary, the memo over the steps that the form   *)
(* shows while it is edited.  The errors are modelled; the warnings do not *)
(* enter errorCount.                                                       *)
(***************************************************************************)
\* The test of a field without the trim: only an empty field is an error.
IssueIfEmpty(field, message) == IF field = <<>> THEN <<message>> ELSE <<>>

\* pushIssue(step.id, 'error', message) when the field is blank.
IssueIfBlank(field, message) == IF Trim(field) = <<>> THEN <<message>> ELSE <<>>

\* The errors the memo pushes for one enabled step, in order.
StepIssues(step) ==
    IF step.type = "copy"
    THEN IssueIfBlank(step.payloadSource, "Copy decree is missing a source.")
         \o IssueIfBlank(step.dest, "Copy decree is missing a destination path.")
    ELSE IF step.type = "patchBlock"
    THEN IssueIfBlank(step.file, "Patch decree is missing the target file.")
         \o (IF Trim(step.startMarker) = <<>> \/ Trim(step.endMarker) = <<>>
             THEN <<"Patch decree needs both start/end markers.">> ELSE <<>>)
         \o IssueIfBlank(step.contentSource, "Patch decree is missing a content file.")
    ELSE IF step.type = "setJsonValue"
    THEN IssueIfBlank(step.file, "JSON decree is missing the target file.")
         \o IssueIfBlank(step.keyPath, "JSON decree is missing the key path.")
         \o (IF step.valueType = "number" /\ NumberIsNaN(step.valueRaw)
             THEN <<"JSON number value is invalid.">> ELSE <<>>)
         \o (IF step.valueType = "json" /\ ~JsonParses(step.valueRaw)
             THEN <<"JSON value is not valid JSON.">> ELSE <<>>)
    ELSE IF step.type = "base64Embed"
    THEN IssueIfBlank(step.file, "Seal embed is missing the target file.")
         \o IssueIfBlank(step.placeholder, "Seal embed is missing the placeholder.")
         \o IssueIfBlank(step.inputSource, "Seal embed is missing the input file.")
    ELSE IssueIfBlank(step.command, "Command decree is missing the command.")

RECURSIVE ValidationIssues(_)
\* validation: the loop over the steps, disabled ones skipped.
ValidationIssues(uiSteps) ==
    IF uiSteps = <<>> THEN <<>>
    ELSE ValidationIssues(SubSeq(uiSteps, 1, Len(uiSteps) - 1))
         \o (IF uiSteps[Len(uiSteps)].enabled
             THEN StepIssues(uiSteps[Len(uiSteps)]) ELSE <<>>)

\* validation.errorCount
errorCount == Len(ValidationIssues(steps))

(***************************************************************************)
(* Summary and build-time checks                                           *)
(***************************************************************************)
\* The click ended in the catch block of handleBuild without a command.
Rejected == Clicked /\ bpc' = "idle"

\* The messages of the Error the click logged.
RejectionMessages == MessagesIn(logs'[Len(logs')])

\* Every message of the rejection is one of msgs.
RejectedOnlyFor(msgs) ==
    \A k \in 1..Len(RejectionMessages) : RejectionMessages[k] \in msgs

\* C27: the validation summary and the build-time checks agree: when the
\* summary reports an error, handleBuild on the same steps is rejected, and
\* when it reports none, handleBuild is rejected only for a payload-path
\* collision.
C27_AsStated ==
    [][Clicked =>
         /\ errorCount > 0 => Rejected
         /\ (errorCount = 0 /\ Rejected) =>
                RejectedOnlyFor({"A payload path is already claimed: "})]_vars

\* C27, amended: an error of the summary rejects the build, and without
\* one the build is rejected only by addPayload, for a payload path that is
\* claimed by another source or for one that is empty.
C27_SummaryAgreesUpToPayloadPaths ==
    [][Clicked =>
         /\ errorCount > 0 => Rejected
         /\ (errorCount = 0 /\ Rejected) =>
                RejectedOnlyFor({"A payload path is already claimed: ",
                                 "A payload path cannot be empty."})]_vars

\* The build was rejected for an empty payload path on steps for which the
\* summary shows no error.
C27_Witness ==
    /\ bpc = "idle"
    /\ errorCount = 0
    /\ Len(logs) = 2
    /\ ValidationFailure(logs[2])
    /\ MessagesIn(logs[2]) = <<"A payload path cannot be empty.">>

(***************************************************************************)
(* Studio: the preset library.  handleSavePreset, handleDeletePreset and   *)
(* handleImportPreset each run from the click to an await, and on from     *)
(* there when the dialog or the command returns; a handler that waits      *)
(* holds what it read at the click: the name, and the library it saw.      *)
(***************************************************************************)
\* The names typed into the prompt and found in preset files: one that the
\* default library holds and one that it does not.
PresetNames == {"Custom", "New"}

\* At most MaxPresetWaits preset handlers wait at a time.
MaxPresetWaits == 2

Names(lib) == {lib[i].name : i \in 1..Len(lib)}

\* prev.filter(preset => preset.name !== name)
WithoutPreset(lib, name) == SelectSeq(lib, LAMBDA preset : preset.name # name)

\* setPresets(prev => [...prev.filter(p => p.name !== name), { name, data }])
WithPreset(lib, name, data) == Append(WithoutPreset(lib, name), Preset(name, data))

\* The effect on [presets, selectedPresetName]: a selection that left the
\* library moves to the first preset.
Reselect(lib, selected) ==
    IF lib # <<>> /\ selected \notin Names(lib) THEN lib[1].name ELSE selected

\* A handler that waits: op tells for what; known holds the names of the
\* library of the render the handler was started in, for the handler that
\* reads them after an await (handleImportPreset).
Waiting(op, name, known) == [op |-> op, name |-> name, known |-> known]

Without(seq, i) == SubSeq(seq, 1, i - 1) \o SubSeq(seq, i + 1, Len(seq))

PresetLine(text, name) == <<text, name>>

\* What the preset handlers leave alone.
notPresetVars ==
    <<steps, building, bpc, bsteps, breq, btarget, asked,
      patchVars, exportVars, formVars, installerVars, engineVars, keyVars>>

\* The selector of the library, which lists the presets.
SelectPreset ==
    /\ \E name \in Names(presets) \ {selectedPresetName} : selectedPresetName' = name
    /\ UNCHANGED <<presets, pasked, logs, calls>>
    /\ UNCHANGED notPresetVars

\* The tail of handleSavePreset and of handleImportPreset.
StorePreset(name, data, line) ==
    /\ presets' = WithPreset(presets, name, data)
    /\ selectedPresetName' = name
    /\ logs' = Append(logs, PresetLine(line, name))

\* handleSavePreset, from the click through the prompt to the first await.
ClickSavePreset(name) ==
    /\ Len(logs) < MaxLogs
    /\ IF name \in Names(presets)
       THEN /\ Len(pasked) < MaxPresetWaits
            /\ pasked' = Append(pasked, Waiting("save", name, {}))
            /\ UNCHANGED <<presets, selectedPresetName, logs>>
       ELSE /\ StorePreset(name, "form", "Preset saved: ")
            /\ UNCHANGED pasked
    /\ UNCHANGED calls
    /\ UNCHANGED notPresetVars

\* The operator answers 'Replace preset?' of a save or of an import.
AnswerReplace(i, overwrite) ==
    /\ i \in 1..Len(pasked)
    /\ pasked[i].op \in {"save", "replace"}
    /\ Len(logs) < MaxLogs
    /\ pasked' = Without(pasked, i)
    /\ IF overwrite
       THEN IF pasked[i].op = "save"
            THEN StorePreset(pasked[i].name, "form", "Preset saved: ")
            ELSE StorePreset(pasked[i].name, "file", "Preset imported: ")
       ELSE UNCHANGED <<presets, selectedPresetName, logs>>
    /\ UNCHANGED calls
    /\ UNCHANGED notPresetVars

\* handleDeletePreset, from the click to the confirmation.
ClickDeletePreset ==
    /\ Len(logs) < MaxLogs
    /\ IF selectedPresetName \notin Names(presets)
       THEN /\ logs' = Append(logs, <<"No preset selected.">>)
            /\ UNCHANGED pasked
       ELSE IF Len(presets) <= 1
       THEN /\ logs' = Append(logs, <<"The library needs at least one preset.">>)
            /\ UNCHANGED pasked
       ELSE /\ Len(pasked) < MaxPresetWaits
            /\ pasked' = Append(pasked, Waiting("delete", selectedPresetName, {}))
            /\ UNCHANGED logs
    /\ UNCHANGED <<presets, selectedPresetName, calls>>
    /\ UNCHANGED notPresetVars

\* The operator answers 'Delete preset?'.
AnswerDeletePreset(i, confirmDelete) ==
    /\ i \in 1..Len(pasked)
    /\ pasked[i].op = "delete"
    /\ Len(logs) < MaxLogs
    /\ pasked' = Without(pasked, i)
    /\ IF confirmDelete
       THEN /\ presets' = WithoutPreset(presets, pasked[i].name)
            /\ selectedPresetName' = Reselect(presets', selectedPresetName)
            /\ logs' = Append(logs, PresetLine("Preset deleted: ", pasked[i].name))
       ELSE UNCHANGED <<presets, selectedPresetName, logs>>
    /\ UNCHANGED calls
    /\ UNCHANGED notPresetVars

\* handleImportPreset, from the click to the open dialog.
ClickImportPreset ==
    /\ Len(pasked) < MaxPresetWaits
    /\ pasked' = Append(pasked, Waiting("open", "", Names(presets)))
    /\ UNCHANGED <<presets, selectedPresetName, logs, calls>>
    /\ UNCHANGED notPresetVars

\* The open dialog closes, with a file selected or without.
PresetOpenCloses(i, selected) ==
    /\ i \in 1..Len(pasked)
    /\ pasked[i].op = "open"
    /\ IF selected
       THEN pasked' = [pasked EXCEPT ![i].op = "read"]
       ELSE pasked' = Without(pasked, i)
    /\ UNCHANGED <<presets, selectedPresetName, logs, calls>>
    /\ UNCHANGED notPresetVars

\* read_text_file resolves with a preset file that holds the name, or no
\* name ("").
PresetReadResolves(i, name) ==
    /\ i \in 1..Len(pasked)
    /\ pasked[i].op = "read"
    /\ Len(logs) < MaxLogs
    /\ IF name = ""
       THEN /\ logs' = Append(logs, <<"Preset import failed: ", "Error: ",
                                      "Preset name is missing.">>)
            /\ pasked' = Without(pasked, i)
            /\ UNCHANGED <<presets, selectedPresetName>>
       ELSE IF name \in pasked[i].known
       THEN /\ pasked' = [pasked EXCEPT ![i] = Waiting("replace", name, {})]
            /\ UNCHANGED <<presets, selectedPresetName, logs>>
       ELSE /\ StorePreset(name, "file", "Preset imported: ")
            /\ pasked' = Without(pasked, i)
    /\ UNCHANGED calls
    /\ UNCHANGED notPresetVars

\* read_text_file rejects.
PresetReadRejects(i) ==
    /\ i \in 1..Len(pasked)
    /\ pasked[i].op = "read"
    /\ Len(logs) < MaxLogs
    /\ logs' = Append(logs, <<"Preset import failed: ">> \o RejectionString)
    /\ pasked' = Without(pasked, i)
    /\ UNCHANGED <<presets, selectedPresetName, calls>>
    /\ UNCHANGED notPresetVars

NextPresets ==
    \/ SelectPreset
    \/ \E name \in PresetNames : ClickSavePreset(name)
    \/ \E i \in 1..MaxPresetWaits, overwrite \in BOOLEAN : AnswerReplace(i, overwrite)
    \/ ClickDeletePreset
    \/ \E i \in 1..MaxPresetWaits, confirmDelete \in BOOLEAN : AnswerDeletePreset(i, confirmDelete)
    \/ ClickImportPreset
    \/ \E i \in 1..MaxPresetWaits, selected \in BOOLEAN : PresetOpenCloses(i, selected)
    \/ \E i \in 1..MaxPresetWaits, name \in PresetNames \cup {""} : PresetReadResolves(i, name)
    \/ \E i \in 1..MaxPresetWaits : PresetReadRejects(i)

SpecPresets == InitBuild /\ [][NextPresets]_vars

(***************************************************************************)
(* The preset library                                                      *)
(***************************************************************************)
NamesDistinct ==
    \A i, j \in 1..Len(presets) : i # j => presets[i].name # presets[j].name

\* C28: after any sequence of save, import and delete operations on the
\* preset library, from the default library and for every interleaving of
\* pending confirmations, the preset names are pairwise distinct and the
\* library holds at least one preset.
C28_AsStated == NamesDistinct /\ Len(presets) >= 1

\* The names stay pairwise distinct in every interleaving.
PresetNamesDistinct == NamesDistinct

\* The deletion of the last preset: the library is empty after a delete.
LibraryEmptied ==
    /\ presets = <<>>
    /\ logs # <<>>
    /\ logs[Len(logs)][1] = "Preset deleted: "

(***************************************************************************)
(* Importing a manifest that was not written by the Studio: the file at    *)
(* ManifestPath holds steps of the types the Studio knows and of others.   *)
(***************************************************************************)
\* The longest installSteps list of a manifest file on disk.
MaxManifestSteps == 3

\* Steps as a manifest file spells them: two of types the Studio knows,
\* one of a type it does not know, and one whose type differs from a known
\* one by its case.
ManifestFileSteps ==
    { [type |-> "copy", src |-> <<"a">>, dest |-> Dest],
      [type |-> "runCommand", command |-> <<"c">>, args |-> << <<"a">> >>],
      [type |-> "deleteFile", file |-> TargetFile],
      [type |-> "Copy", src |-> <<"a">>, dest |-> Dest] }

\* The manifest files the operator may pick in the open dialog.
ManifestFiles ==
    {Manifest(installSteps) : installSteps \in SeqsUpTo(ManifestFileSteps, MaxManifestSteps)}

\* The Dashboard with a form of copy steps, and a manifest file on disk.
InitImport ==
    /\ steps \in SeqsUpTo({CopyStep(TRUE, XA, <<>>, Dest)}, MaxSteps)
    /\ PresetIdle
    /\ pname = projectName
    /\ xpc = "idle"
    /\ xsteps = <<>>
    /\ exported \in {[written |-> TRUE, from |-> <<>>, contents |-> man] : man \in ManifestFiles}
    /\ building = FALSE
    /\ logs = <<>>
    /\ bpc = "idle"
    /\ bsteps = <<>>
    /\ breq = NoRequest
    /\ btarget = NoTarget
    /\ asked = <<>>
    /\ calls = <<>>
    /\ PatchIdle
    /\ InstallerIdle
    /\ EngineIdle
    /\ KeyIdle

\* handleImportManifest, from the click to the open dialog, at any time the
\* Dashboard is idle.
ClickImportFile ==
    /\ xpc = "idle"
    /\ bpc = "idle"
    /\ Len(logs) < MaxLogs
    /\ xpc' = "open"
    /\ UNCHANGED <<xsteps, exported>>
    /\ UNCHANGED buildVars
    /\ UNCHANGED notStudioVars

NextImport ==
    \/ ClickImportFile
    \/ \E selected \in BOOLEAN : OpenCloses(selected)
    \/ ReadResolves
    \/ ReadRejects

SpecImport == InitImport /\ [][NextImport]_vars

\* The positions of installSteps that hold a step of a recognised type.
Recognised(installSteps) ==
    {i \in 1..Len(installSteps) : installSteps[i].type \in StepTypes}

\* uiSteps is the image of installSteps: one enabled step of the same type
\* for each step of a recognised type, in the same relative order, and
\* nothing for the others.
ImageOf(uiSteps, installSteps) ==
    /\ Len(uiSteps) = Cardinality(Recognised(installSteps))
    /\ \E at \in [1..Len(uiSteps) -> Recognised(installSteps)] :
          /\ \A j, k \in 1..Len(uiSteps) : j < k => at[j] < at[k]
          /\ \A k \in 1..Len(uiSteps) :
                /\ uiSteps[k].type = installSteps[at[k]].type
                /\ uiSteps[k].enabled

\* C29: an import that succeeds replaces the whole step list by the image
\* of the file's installSteps: each step of a recognised type gives exactly
\* one enabled step of that type, relative order is kept, and a step of
\* any other type is dropped; the only log line is the import line.
C29_ImportIsImage ==
    [][ImportApplied =>
          /\ ImageOf(steps', exported.contents.installSteps)
          /\ logs' = Append(logs, ImportedLine(ManifestPath))
          /\ xpc' = "idle"]_vars

\* An import went through for a file whose unknown step stood between a
\* copy and a runCommand step: the form holds the two, in that order.
C29_Witness ==
    /\ xpc = "idle"
    /\ Len(logs) >= 1
    /\ logs[Len(logs)] = ImportedLine(ManifestPath)
    /\ Len(exported.contents.installSteps) = 3
    /\ exported.contents.installSteps[1].type = "copy"
    /\ exported.contents.installSteps[2].type \notin StepTypes
    /\ exported.contents.installSteps[3].type = "runCommand"
    /\ Len(steps) = 2
    /\ steps[1].type = "copy"
    /\ steps[2].type = "runCommand"

(***************************************************************************)
(* Marker uniqueness under patching.                                       *)
(***************************************************************************)
\* The number of occurrences of the start marker in a text.
StartCount(text) == Cardinality(Positions(text, StartMarker))

\* The block the first start marker of a text opens: from that marker to
\* the first end marker after it, or nothing when either is missing.
OpenedBlock(text) ==
    IF Positions(text, StartMarker) = {} THEN <<>>
    ELSE LET i == Min(Positions(text, StartMarker))
             ends == {j \in Positions(text, EndMarker) : j > i}
         IN  IF ends = {} THEN <<>> ELSE SubSeq(text, i, Min(ends))

\* An existing file with at most one start marker has been patched, once or
\* more, with contents that are each wrapped in exactly one marker pair.
PatchedFromAtMostOne ==
    /\ pfile0.exists
    /\ StartCount(pfile0.text) <= 1
    /\ Len(applied) >= 1
    /\ \A k \in 1..Len(applied) : Wrapped(applied[k])

\* The file holds one start marker and the block it opens is the content of
\* the last application.
OneBlockOfLast ==
    /\ StartCount(pfile.text) = 1
    /\ OpenedBlock(pfile.text) = applied[Len(applied)]

\* C30 as stated: for every initial file with at most one start marker, a
\* start marker without an end marker included, and wrapped contents, after
\* any number of applications the file holds exactly one start marker and
\* the block it opens holds the content of the last application.
C30_AsStated == PatchedFromAtMostOne => OneBlockOfLast

\* The same for the files whose start marker, if there is one, has an end
\* marker after it.
OneBlockOfLastWhenClosed ==
    (PatchedFromAtMostOne /\ ~DanglingStart(pfile0.text)) => OneBlockOfLast

\* apply.ps1 on a file with a start marker and no end marker: the block was
\* appended and the file holds two start markers.
DanglingAppended ==
    /\ script = "ps1"
    /\ PatchedFromAtMostOne
    /\ DanglingStart(pfile0.text)
    /\ paths = <<"append">>
    /\ StartCount(pfile.text) = 2

\* apply-macos.sh on the same file: the replace branch is taken and the
\* file is written back as it was, twice over.
DanglingUnchanged ==
    /\ script = "sh"
    /\ PatchedFromAtMostOne
    /\ DanglingStart(pfile0.text)
    /\ paths = <<"replace", "replace">>
    /\ pfile = pfile0

====
